---------------------------- MODULE Spec2Model ----------------------------
(***************************************************************************)
(* Model of the RV32IMAC interpreter hart of derisc                        *)
(* (crates/riscv-vm/src/hart.rs, Hart32::step).                            *)
(*                                                                         *)
(* A u32 is represented by the integer in -2^31 .. 2^31-1 that has the     *)
(* same 32-bit two's-complement pattern (the value of `x as i32`), because *)
(* the model checker's integers are 32 bits wide.  All arithmetic below is *)
(* written so that no intermediate value leaves that range, and wraps      *)
(* modulo 2^32 exactly as the Rust wrapping_* operations do.               *)
(***************************************************************************)
EXTENDS Integers, Sequences, FiniteSets, TLC

\* ------------------------------------------------------------------------
\* 32-bit arithmetic on two's-complement patterns
\* ------------------------------------------------------------------------

MaxI32 == 2147483647
MinI32 == (-2147483647) - 1

\* u32::wrapping_add / wrapping_add_signed: addition modulo 2^32.
WrapAdd(a, b) ==
    IF a >= 0 /\ b >= 0
    THEN IF a > MaxI32 - b THEN (a + MinI32) + (b + MinI32) ELSE a + b
    ELSE IF a < 0 /\ b < 0
         THEN IF a < MinI32 - b THEN (a - MinI32) + (b - MinI32) ELSE a + b
         ELSE a + b

\* Bitwise complement (!x).
BitNot(a) == (-1) - a

\* u32::wrapping_sub: a - b = a + !b + 1 modulo 2^32.
WrapSub(a, b) == WrapAdd(WrapAdd(a, BitNot(b)), 1)

\* Unsigned comparison of two patterns (u32 `<`).
ULt(a, b) ==
    IF (a < 0) = (b < 0) THEN a < b ELSE b < 0

\* Byte k (0 = least significant) of a pattern, and the pattern made of
\* four bytes (little-endian order of significance).
Byte(a, k) == (a \div (256 ^ k)) % 256
Word(b0, b1, b2, b3) ==
    b0 + 256 * b1 + 65536 * b2 + 16777216 * (IF b3 >= 128 THEN b3 - 256 ELSE b3)

\* Bitwise and, or, xor of two bytes.
RECURSIVE And8(_, _)
And8(x, y) ==
    IF x = 0 \/ y = 0 THEN 0
    ELSE (x % 2) * (y % 2) + 2 * And8(x \div 2, y \div 2)

RECURSIVE Or8(_, _)
Or8(x, y) ==
    IF x = 0 THEN y
    ELSE IF y = 0 THEN x
    ELSE (IF x % 2 = 1 \/ y % 2 = 1 THEN 1 ELSE 0) + 2 * Or8(x \div 2, y \div 2)

RECURSIVE Xor8(_, _)
Xor8(x, y) ==
    IF x = 0 THEN y
    ELSE IF y = 0 THEN x
    ELSE (((x % 2) + (y % 2)) % 2) + 2 * Xor8(x \div 2, y \div 2)

\* Bitwise and, or, xor of two patterns (u32 `&`, `|`, `^`).
BitAnd(a, b) ==
    Word(And8(Byte(a, 0), Byte(b, 0)), And8(Byte(a, 1), Byte(b, 1)),
         And8(Byte(a, 2), Byte(b, 2)), And8(Byte(a, 3), Byte(b, 3)))
BitOr(a, b) ==
    Word(Or8(Byte(a, 0), Byte(b, 0)), Or8(Byte(a, 1), Byte(b, 1)),
         Or8(Byte(a, 2), Byte(b, 2)), Or8(Byte(a, 3), Byte(b, 3)))
BitXor(a, b) ==
    Word(Xor8(Byte(a, 0), Byte(b, 0)), Xor8(Byte(a, 1), Byte(b, 1)),
         Xor8(Byte(a, 2), Byte(b, 2)), Xor8(Byte(a, 3), Byte(b, 3)))

\* u32 `<<` by n in 0..31: the bits shifted out are lost.
Shl(a, n) ==
    IF n = 0 THEN a
    ELSE IF n = 1 THEN WrapAdd(a, a)
    ELSE IF n = 31 THEN (IF a % 2 = 1 THEN MinI32 ELSE 0)
    ELSE LET kept == a % (2 ^ (32 - n))
         IN  IF kept >= 2 ^ (31 - n)
             THEN (kept - 2 ^ (32 - n)) * (2 ^ n)
             ELSE kept * (2 ^ n)

\* i32 `>>` by n in 0..31 (arithmetic: the sign bit is replicated).
Sar(a, n) ==
    IF n = 31 THEN (IF a < 0 THEN -1 ELSE 0) ELSE a \div (2 ^ n)

\* u32 `>>` by n in 0..31 (logical: zeros are shifted in).
Shr(a, n) ==
    IF n = 0 THEN a
    ELSE IF a >= 0 THEN Sar(a, n)
    ELSE Sar(((a \div 2) + MaxI32) + 1, n - 1)

\* Carry propagation over the column sums of a schoolbook product: the
\* sequence of result bytes, least significant first.
RECURSIVE Carry(_, _, _)
Carry(cols, k, c) ==
    IF k > Len(cols) THEN <<>>
    ELSE <<(cols[k] + c) % 256>> \o Carry(cols, k + 1, (cols[k] + c) \div 256)

\* Column k (1-based) of the byte-wise product of two byte sequences.
RECURSIVE Column(_, _, _, _)
Column(xs, ys, k, i) ==
    IF i > k THEN 0 ELSE xs[i] * ys[(k - i) + 1] + Column(xs, ys, k, i + 1)

Bytes4(a) == <<Byte(a, 0), Byte(a, 1), Byte(a, 2), Byte(a, 3)>>

\* u32::wrapping_mul: the low 32 bits of the product.
WrapMul(a, b) ==
    LET xs == Bytes4(a)
        ys == Bytes4(b)
        r  == Carry([k \in 1..4 |-> Column(xs, ys, k, 1)], 1, 0)
    IN  Word(r[1], r[2], r[3], r[4])

\* 64-bit values as <<high word, low word>>, both 32-bit patterns:
\* `x as i32 as i64` and `x as u64`.
SExt64(a) == <<IF a < 0 THEN -1 ELSE 0, a>>
ZExt64(a) == <<0, a>>

\* i64/u64 wrapping_mul: the low 64 bits of the product.
Mul64(x, y) ==
    LET xs == Bytes4(x[2]) \o Bytes4(x[1])
        ys == Bytes4(y[2]) \o Bytes4(y[1])
        r  == Carry([k \in 1..8 |-> Column(xs, ys, k, 1)], 1, 0)
    IN  <<Word(r[5], r[6], r[7], r[8]), Word(r[1], r[2], r[3], r[4])>>

\* `>> 32` of a 64-bit value, truncated to 32 bits: the high word.
High32(x) == x[1]

\* i32::wrapping_div for b # 0 and not (a = MinI32 /\ b = -1): truncates
\* toward zero.
RECURSIVE TruncDiv(_, _)
TruncDiv(a, b) ==
    IF b > 0
    THEN IF a >= 0 \/ a % b = 0 THEN a \div b ELSE (a \div b) + 1
    ELSE IF b = MinI32 THEN (IF a = MinI32 THEN 1 ELSE 0)
         ELSE 0 - TruncDiv(a, 0 - b)

\* i32::wrapping_rem under the same precondition: a - (a / b) * b.
TruncRem(a, b) == WrapSub(a, WrapMul(TruncDiv(a, b), b))

\* u32::wrapping_div for b # 0.
UDiv(a, b) ==
    IF b < 0 THEN (IF ULt(a, b) THEN 0 ELSE 1)
    ELSE IF a >= 0 THEN a \div b
    ELSE LET h  == Shr(a, 1)
             l  == a % 2
             q1 == h \div b
             r1 == h % b
         IN  WrapAdd(WrapAdd(q1, q1), IF r1 >= (b - r1) - l THEN 1 ELSE 0)

\* u32::wrapping_rem for b # 0.
URem(a, b) == WrapSub(a, WrapMul(UDiv(a, b), b))

\* `as i8 as i32` replaced by a zero extension.
SExt8_zero_extending(b) == b

\* Sign extension of the low 8 / 16 bits (`as i8 as i32`, `as i16 as i32`)
\* and truncation to them (`as u8`, `as u16`).
Low8(a) == a % 256
Low16(a) == a % 65536
SExt8(b) == IF b >= 128 THEN b - 256 ELSE b
SExt16(h) == IF h >= 32768 THEN h - 65536 ELSE h

\* ------------------------------------------------------------------------
\* Hart state (struct Hart32), the guest memory and the step record
\* ------------------------------------------------------------------------

VARIABLES
    regs,        \* regs: [u32; 32], restricted to the registers in Reg
    csrs,        \* csrs: [u32; 4096], restricted to the indices in CsrIdx
    pc,          \* pc: u32
    inst_count,  \* inst_count: u64
    amo_rsv,     \* amo_rsv: Option<u32>
    mem,         \* the Memory handed to step, byte addressed
    inst,        \* the instruction the last call of step decoded
    result,      \* what the last call of step returned
    pre,         \* the state the last call of step started from, whether
                 \* the call before it retired an LR.W, and the kernel hook
                 \* the last call made
    calls,       \* how many times step has been called
    oks,         \* how many of the calls returned Ok(StepResult::Ok)
    decoded      \* the raw word the last call of step fetched, with what the
                 \* decoder's accessors return on it

vars ==
    <<regs, csrs, pc, inst_count, amo_rsv, mem, inst, result, pre, calls, oks,
      decoded>>

\* Bounds of the model.
MaxCalls == 1
MaxSeqCalls == 2
MaxAtomicCalls == 2
MaxWordCalls == 1
MemSize == 8

\* The registers the modelled programs and the kernel name.
Reg == {0, 1, 2, 3, 4, 5, 8, 9, 10}
Zero == 0
Ra == 1
Sp == 2
A0 == 10

\* Option<u32>
None == [some |-> FALSE, val |-> 0]
Some(a) == [some |-> TRUE, val |-> a]

\* The CSR indices the modelled programs name.
CsrIdx == {768, 832}

\* Hart32::get_reg
get_reg(rf, r) == rf[IF r = 0 THEN 0 ELSE r]

\* A set_reg that forgets that x0 is hard-wired.
set_reg_unguarded(rf, r, val) == [rf EXCEPT ![r] = val]

\* Hart32::set_reg
set_reg(rf, r, val) == [rf EXCEPT ![r] = IF r = 0 THEN 0 ELSE val]

\* Memory: typed little-endian loads and stores on a flat byte store.
InMem(a, n) == a >= 0 /\ a <= MemSize - n
load_u8(m, a) == m[a]
load_u16(m, a) == m[a] + 256 * m[a + 1]
load_u32(m, a) == Word(m[a], m[a + 1], m[a + 2], m[a + 3])
store_u8(m, a, v) == [m EXCEPT ![a] = Byte(v, 0)]
store_u16(m, a, v) == [m EXCEPT ![a] = Byte(v, 0), ![a + 1] = Byte(v, 1)]
store_u32(m, a, v) ==
    [m EXCEPT ![a] = Byte(v, 0), ![a + 1] = Byte(v, 1),
              ![a + 2] = Byte(v, 2), ![a + 3] = Byte(v, 3)]

\* Result<StepResult, MachineError>: Ok(StepResult::Ok), Ok(a terminal
\* StepResult of the kernel), or Err(error) with the fields the error carries.
ResOk == [inst |-> 0, kind |-> "Ok", err |-> "", addr |-> 0, required |-> 0]
ResTerminal(kind) ==
    [inst |-> 0, kind |-> kind, err |-> "", addr |-> 0, required |-> 0]
ResErr(e, a, req) ==
    [inst |-> 0, kind |-> "Err", err |-> e, addr |-> a, required |-> req]

\* The part of the state one call of step works on.
Cur ==
    [regs |-> regs, csrs |-> csrs, pc |-> pc, inst_count |-> inst_count,
     amo_rsv |-> amo_rsv, mem |-> mem]

\* The kernel hook an arm called, and what the hook answered.
NoHook == [name |-> "none", out |-> "None"]

\* What the match arms of step produce: the state after the arm, the value
\* of next_pc, the value returned if the arm returns early, and the kernel
\* hook the arm called.
Eff(h, npc) == [h |-> h, next_pc |-> npc, res |-> ResOk, hook |-> NoHook]
Ret(h, r) == [h |-> h, next_pc |-> h.pc, res |-> r, hook |-> NoHook]

\* let inc = if matches!(op, Rv32::Rv32c(_)) { 2 } else { 4 };
Rv32cOps ==
    {"C.ADDI4SPN", "C.LW", "C.SW", "C.ADDI", "C.ADDI16SP", "C.LWSP", "C.SWSP",
     "C.NOP", "C.JAL", "C.LI", "C.LUI", "C.SRLI", "C.SRAI", "C.ANDI", "C.SUB",
     "C.XOR", "C.OR", "C.AND", "C.J", "C.BEQZ", "C.BNEZ", "C.SLLI", "C.JR",
     "C.MV", "C.EBREAK", "C.JALR", "C.ADD", "C.UNIMP"}
\* An increment that takes every instruction for a 32-bit one.
inc_always_4(op) == 4

inc(op) == IF op \in Rv32cOps THEN 2 ELSE 4

\* reg!(rd, val)
WriteReg(h, rd, val) == [h EXCEPT !.regs = set_reg(@, rd, val)]

\* Rust `bool as u32`
B2U(b) == IF b THEN 1 ELSE 0

\* ------------------------------------------------------------------------
\* The macros of step
\* ------------------------------------------------------------------------

\* imm_op! evaluating the body and dropping the write of rd.
imm_op_discarding(h, i, val) == h

\* imm_op!, reg_imm_op!, reg_reg_op!: the operands are read, the body is
\* evaluated, and then rd is written.
imm_op(h, i, val) == WriteReg(h, i.rd, val)
reg_imm_op(h, i, val) == WriteReg(h, i.rd, val)
reg_reg_op(h, i, val) == WriteReg(h, i.rd, val)

\* store_op!: addr = rs1.wrapping_add_signed(imm)
store_addr(h, i) == WrapAdd(get_reg(h.regs, i.rs1), i.imm)

\* branch_op! adding the offset to next_pc instead of self.pc.
branch_op_from_next_pc(h, i, npc, taken) ==
    Eff(h, IF taken THEN WrapAdd(npc, i.imm) ELSE npc)

\* branch_op!: next_pc = pc + offset when the predicate holds.
branch_op(h, i, npc, taken) ==
    Eff(h, IF taken THEN WrapAdd(h.pc, i.imm) ELSE npc)

\* self.csrs[csr12] = rs1, |= rs1, &= !rs1
CsrWrite(old, src) == src
CsrSet(old, src) == BitOr(old, src)
CsrClear(old, src) == BitAnd(old, BitNot(src))

\* The bodies the CSR arms hand to csr_op! and csr_imm_op!.
CsrBody(op, old, src) ==
    CASE op \in {"CSRRW", "CSRRWI"} -> CsrWrite(old, src)
      [] op \in {"CSRRS", "CSRRSI"} -> CsrSet(old, src)
      [] op \in {"CSRRC", "CSRRCI"} -> CsrClear(old, src)

\* csr_op! writing rd before it reads rs1.
csr_op_rd_first(h, i) ==
    LET h1  == WriteReg(h, i.rd, h.csrs[i.csr])
        rs1 == get_reg(h1.regs, i.rs1)
    IN  [h1 EXCEPT !.csrs[i.csr] = CsrBody(i.op, @, rs1)]

\* csr_op!: rs1 is read, rd receives csrs[csr], then the body updates the CSR.
csr_op(h, i) ==
    LET rs1 == get_reg(h.regs, i.rs1)
        h1  == WriteReg(h, i.rd, h.csrs[i.csr])
    IN  [h1 EXCEPT !.csrs[i.csr] = CsrBody(i.op, @, rs1)]

\* csr_imm_op!: the same with the immediate in place of rs1.
csr_imm_op(h, i) ==
    LET h1 == WriteReg(h, i.rd, h.csrs[i.csr])
    IN  [h1 EXCEPT !.csrs[i.csr] = CsrBody(i.op, @, i.imm)]

\* The alignment check of the atomics: addr & 3 != 0.
Unaligned(addr) == addr % 4 # 0
UnalignedMemoryAccess(addr) == ResErr("UnalignedMemoryAccess", addr, 4)

\* The operators of the AMO arms; min and max on i32 for AMOMIN/AMOMAX and
\* on u32 for AMOMINU/AMOMAXU.
AmoSwap(old, rs2) == rs2
AmoAdd(old, rs2) == WrapAdd(old, rs2)
AmoXor(old, rs2) == BitXor(old, rs2)
AmoOr(old, rs2) == BitOr(old, rs2)
AmoAnd(old, rs2) == BitAnd(old, rs2)
AmoMin(old, rs2) == IF old <= rs2 THEN old ELSE rs2
AmoMax(old, rs2) == IF old >= rs2 THEN old ELSE rs2
AmoMinu(old, rs2) == IF ULt(rs2, old) THEN rs2 ELSE old
AmoMaxu(old, rs2) == IF ULt(old, rs2) THEN rs2 ELSE old

\* The bodies the AMO arms hand to amo_op!.
AmoBody(op, old, rs2) ==
    CASE op = "AMOSWAP.W" -> AmoSwap(old, rs2)
      [] op = "AMOADD.W"  -> AmoAdd(old, rs2)
      [] op = "AMOXOR.W"  -> AmoXor(old, rs2)
      [] op = "AMOOR.W"   -> AmoOr(old, rs2)
      [] op = "AMOAND.W"  -> AmoAnd(old, rs2)
      [] op = "AMOMIN.W"  -> AmoMin(old, rs2)
      [] op = "AMOMAX.W"  -> AmoMax(old, rs2)
      [] op = "AMOMINU.W" -> AmoMinu(old, rs2)
      [] op = "AMOMAXU.W" -> AmoMaxu(old, rs2)

\* An amo_op! that drops the reservation when it stores.
amo_op_clearing_reservation(h, i, npc) ==
    LET addr == get_reg(h.regs, i.rs1)
    IN  IF Unaligned(addr) THEN Ret(h, UnalignedMemoryAccess(addr))
        ELSE LET old == load_u32(h.mem, addr)
                 h1  == WriteReg([h EXCEPT !.amo_rsv = None], i.rd, old)
                 rs2 == get_reg(h1.regs, i.rs2)
             IN  Eff([h1 EXCEPT !.mem = store_u32(@, addr, AmoBody(i.op, old, rs2))],
                     npc)

\* amo_op!: the address is read from rs1 and checked, old is loaded and
\* written to rd, and only then rs2 is read and the body stored.
amo_op(h, i, npc) ==
    LET addr == get_reg(h.regs, i.rs1)
    IN  IF Unaligned(addr) THEN Ret(h, UnalignedMemoryAccess(addr))
        ELSE LET old == load_u32(h.mem, addr)
                 h1  == WriteReg(h, i.rd, old)
                 rs2 == get_reg(h1.regs, i.rs2)
             IN  Eff([h1 EXCEPT !.mem = store_u32(@, addr, AmoBody(i.op, old, rs2))],
                     npc)

\* The kernel hooks syscall and ebreak: the kernel has exclusive access to
\* the hart and the memory, writes its return value to a0, and answers with
\* StepResult::Ok, a terminal StepResult, or an error.
KernelHook(h, k) == WriteReg(h, A0, k.ret)

\* A kernel call that retires the instruction whatever StepResult the hook
\* answered.
kernel_call_swallowing(h, npc, k, name) ==
    LET h1 == KernelHook(h, k)
        e  == IF k.out = "Err" THEN Ret(h1, ResErr("KernelError", 0, 0))
              ELSE Eff(h1, npc)
    IN  [e EXCEPT !.hook = [name |-> name, out |-> k.out]]

\* match kernel.syscall(self, mem)? { StepResult::Ok => {}, res => return Ok(res) }
kernel_call(h, npc, k, name) ==
    LET h1 == KernelHook(h, k)
        e  == IF k.out = "Err" THEN Ret(h1, ResErr("KernelError", 0, 0))
              ELSE IF k.out = "Ok" THEN Eff(h1, npc)
              ELSE Ret(h1, ResTerminal(k.out))
    IN  [e EXCEPT !.hook = [name |-> name, out |-> k.out]]

\* An illegal instruction that is reported and stepped over.
IllegalInstruction_skipped(h) ==
    [h |-> [h EXCEPT !.pc = WrapAdd(@, 4)], next_pc |-> h.pc,
     res |-> ResErr("IllegalInstruction", h.pc, 0), hook |-> NoHook]

IllegalInstruction(h) == Ret(h, ResErr("IllegalInstruction", h.pc, 0))
UnimplementedInstruction(h) == Ret(h, ResErr("UnimplementedInstruction", h.pc, 0))

\* An InvalidInstruction that reports the pc in place of the fetched word.
InvalidInstruction_without_word(h, word) ==
    Ret(h, [ResErr("InvalidInstruction", h.pc, 0) EXCEPT !.inst = h.pc])

\* HartError::InvalidInstruction { addr: self.pc, inst }
InvalidInstruction(h, word) ==
    Ret(h, [ResErr("InvalidInstruction", h.pc, 0) EXCEPT !.inst = word])

\* ------------------------------------------------------------------------
\* match op { Rv32::Rv32i(i) => ... }
\* ------------------------------------------------------------------------

\* ShiftAmount keeping only four bits of rs2.
ShiftAmount_low_4_bits(rs2) == rs2 % 16

\* rs2 & 0x1f, the shift amount of SLL, SRL and SRA.
ShiftAmount(rs2) == rs2 % 32

\* Rv32i::Jalr: next_pc = rs1.wrapping_add_signed(imm)
JalrTarget(rs1, imm) == WrapAdd(rs1, imm)

ExecRv32i(h, i, npc, k) ==
    LET rs1 == get_reg(h.regs, i.rs1)
        rs2 == get_reg(h.regs, i.rs2)
        imm == i.imm
        la  == WrapAdd(rs1, imm)
    IN  CASE i.op = "LUI"   -> Eff(imm_op(h, i, imm), npc)
          [] i.op = "AUIPC" -> Eff(imm_op(h, i, WrapAdd(h.pc, imm)), npc)
          [] i.op = "JAL"   -> Eff(imm_op(h, i, npc), WrapAdd(h.pc, imm))
          [] i.op = "JALR"  -> Eff(reg_imm_op(h, i, npc), JalrTarget(rs1, imm))
          [] i.op = "BEQ"   -> branch_op(h, i, npc, rs1 = rs2)
          [] i.op = "BNE"   -> branch_op(h, i, npc, rs1 # rs2)
          [] i.op = "BLT"   -> branch_op(h, i, npc, rs1 < rs2)
          [] i.op = "BGE"   -> branch_op(h, i, npc, rs1 >= rs2)
          [] i.op = "BLTU"  -> branch_op(h, i, npc, ULt(rs1, rs2))
          [] i.op = "BGEU"  -> branch_op(h, i, npc, ~ULt(rs1, rs2))
          [] i.op = "LB"    -> Eff(reg_imm_op(h, i, SExt8(load_u8(h.mem, la))), npc)
          [] i.op = "LH"    -> Eff(reg_imm_op(h, i, SExt16(load_u16(h.mem, la))), npc)
          [] i.op = "LW"    -> Eff(reg_imm_op(h, i, load_u32(h.mem, la)), npc)
          [] i.op = "LBU"   -> Eff(reg_imm_op(h, i, load_u8(h.mem, la)), npc)
          [] i.op = "LHU"   -> Eff(reg_imm_op(h, i, load_u16(h.mem, la)), npc)
          [] i.op = "SB"    ->
                Eff([h EXCEPT !.mem = store_u8(@, store_addr(h, i), rs2)], npc)
          [] i.op = "SH"    ->
                Eff([h EXCEPT !.mem = store_u16(@, store_addr(h, i), rs2)], npc)
          [] i.op = "SW"    ->
                Eff([h EXCEPT !.mem = store_u32(@, store_addr(h, i), rs2)], npc)
          [] i.op = "ADDI"  -> Eff(reg_imm_op(h, i, WrapAdd(rs1, imm)), npc)
          [] i.op = "SLTI"  -> Eff(reg_imm_op(h, i, B2U(rs1 < imm)), npc)
          [] i.op = "SLTIU" -> Eff(reg_imm_op(h, i, B2U(ULt(rs1, imm))), npc)
          [] i.op = "XORI"  -> Eff(reg_imm_op(h, i, BitXor(rs1, imm)), npc)
          [] i.op = "ORI"   -> Eff(reg_imm_op(h, i, BitOr(rs1, imm)), npc)
          [] i.op = "ANDI"  -> Eff(reg_imm_op(h, i, BitAnd(rs1, imm)), npc)
          [] i.op = "SLLI"  -> Eff(reg_imm_op(h, i, Shl(rs1, imm)), npc)
          [] i.op = "SRLI"  -> Eff(reg_imm_op(h, i, Shr(rs1, imm)), npc)
          [] i.op = "SRAI"  -> Eff(reg_imm_op(h, i, Sar(rs1, imm)), npc)
          [] i.op = "ADD"   -> Eff(reg_reg_op(h, i, WrapAdd(rs1, rs2)), npc)
          [] i.op = "SUB"   -> Eff(reg_reg_op(h, i, WrapSub(rs1, rs2)), npc)
          [] i.op = "SLL"   -> Eff(reg_reg_op(h, i, Shl(rs1, ShiftAmount(rs2))), npc)
          [] i.op = "SLT"   -> Eff(reg_reg_op(h, i, B2U(rs1 < rs2)), npc)
          [] i.op = "SLTU"  -> Eff(reg_reg_op(h, i, B2U(ULt(rs1, rs2))), npc)
          [] i.op = "XOR"   -> Eff(reg_reg_op(h, i, BitXor(rs1, rs2)), npc)
          [] i.op = "SRL"   -> Eff(reg_reg_op(h, i, Shr(rs1, ShiftAmount(rs2))), npc)
          [] i.op = "SRA"   -> Eff(reg_reg_op(h, i, Sar(rs1, ShiftAmount(rs2))), npc)
          [] i.op = "OR"    -> Eff(reg_reg_op(h, i, BitOr(rs1, rs2)), npc)
          [] i.op = "AND"   -> Eff(reg_reg_op(h, i, BitAnd(rs1, rs2)), npc)
          [] i.op = "FENCE"   -> Eff(h, npc)
          [] i.op = "FENCE.I" -> Eff(h, npc)
          [] i.op = "ECALL"   -> kernel_call(h, npc, k, "syscall")
          [] i.op = "EBREAK"  -> kernel_call(h, npc, k, "ebreak")
          [] i.op = "UNIMP"   -> IllegalInstruction(h)

\* ------------------------------------------------------------------------
\* match op { Rv32::Rv32m(m) => ... }
\* ------------------------------------------------------------------------

\* Div without the arm for a zero divisor answering u32::MAX.
Div_zero_quotient(rs1, rs2) ==
    IF rs2 = 0 THEN 0
    ELSE IF rs1 = MinI32 /\ rs2 = -1 THEN rs1
    ELSE TruncDiv(rs1, rs2)

Div(rs1, rs2) ==
    IF rs2 = 0 THEN -1
    ELSE IF rs1 = MinI32 /\ rs2 = -1 THEN rs1
    ELSE TruncDiv(rs1, rs2)

Divu(rs1, rs2) == IF rs2 = 0 THEN -1 ELSE UDiv(rs1, rs2)

Rem(rs1, rs2) ==
    IF rs2 = 0 THEN rs1
    ELSE IF rs1 = MinI32 /\ rs2 = -1 THEN 0
    ELSE TruncRem(rs1, rs2)

Remu(rs1, rs2) == IF rs2 = 0 THEN rs1 ELSE URem(rs1, rs2)

Mulh(rs1, rs2) == High32(Mul64(SExt64(rs1), SExt64(rs2)))
\* Mulhsu reading rs2 as signed too.
Mulhsu_signed_rs2(rs1, rs2) == High32(Mul64(SExt64(rs1), SExt64(rs2)))

Mulhsu(rs1, rs2) == High32(Mul64(SExt64(rs1), ZExt64(rs2)))
Mulhu(rs1, rs2) == High32(Mul64(ZExt64(rs1), ZExt64(rs2)))

ExecRv32m(h, i, npc) ==
    LET rs1 == get_reg(h.regs, i.rs1)
        rs2 == get_reg(h.regs, i.rs2)
    IN  CASE i.op = "MUL"    -> Eff(reg_reg_op(h, i, WrapMul(rs1, rs2)), npc)
          [] i.op = "MULH"   -> Eff(reg_reg_op(h, i, Mulh(rs1, rs2)), npc)
          [] i.op = "MULHSU" -> Eff(reg_reg_op(h, i, Mulhsu(rs1, rs2)), npc)
          [] i.op = "MULHU"  -> Eff(reg_reg_op(h, i, Mulhu(rs1, rs2)), npc)
          [] i.op = "DIV"    -> Eff(reg_reg_op(h, i, Div(rs1, rs2)), npc)
          [] i.op = "DIVU"   -> Eff(reg_reg_op(h, i, Divu(rs1, rs2)), npc)
          [] i.op = "REM"    -> Eff(reg_reg_op(h, i, Rem(rs1, rs2)), npc)
          [] i.op = "REMU"   -> Eff(reg_reg_op(h, i, Remu(rs1, rs2)), npc)

\* ------------------------------------------------------------------------
\* match op { Rv32::Rv32s(s) => ... }
\* ------------------------------------------------------------------------

ExecRv32s(h, i, npc) ==
    CASE i.op = "URET"       -> UnimplementedInstruction(h)
      [] i.op = "SRET"       -> UnimplementedInstruction(h)
      [] i.op = "HRET"       -> UnimplementedInstruction(h)
      [] i.op = "MRET"       -> Eff(h, npc)
      [] i.op = "DRET"       -> UnimplementedInstruction(h)
      [] i.op = "SFENCE.VM"  -> UnimplementedInstruction(h)
      [] i.op = "SFENCE.VMA" -> UnimplementedInstruction(h)
      [] i.op = "WFI"        -> UnimplementedInstruction(h)
      [] i.op = "CSRRW"      -> Eff(csr_op(h, i), npc)
      [] i.op = "CSRRS"      -> Eff(csr_op(h, i), npc)
      [] i.op = "CSRRC"      -> Eff(csr_op(h, i), npc)
      [] i.op = "CSRRWI"     -> Eff(csr_imm_op(h, i), npc)
      [] i.op = "CSRRSI"     -> Eff(csr_imm_op(h, i), npc)
      [] i.op = "CSRRCI"     -> Eff(csr_imm_op(h, i), npc)

\* ------------------------------------------------------------------------
\* match op { Rv32::Rv32a(a) => ... }
\* ------------------------------------------------------------------------

\* An LR.W that takes the reservation before it checks the alignment.
LrW_reserve_first(h, i, npc) ==
    LET addr == get_reg(h.regs, i.rs1)
        h1   == [h EXCEPT !.amo_rsv = Some(addr)]
    IN  IF Unaligned(addr) THEN Ret(h1, UnalignedMemoryAccess(addr))
        ELSE Eff(WriteReg(h1, i.rd, load_u32(h.mem, addr)), npc)

\* Rv32a::LrW
LrW(h, i, npc) ==
    LET addr == get_reg(h.regs, i.rs1)
    IN  IF Unaligned(addr) THEN Ret(h, UnalignedMemoryAccess(addr))
        ELSE Eff(WriteReg([h EXCEPT !.amo_rsv = Some(addr)], i.rd,
                          load_u32(h.mem, addr)), npc)

\* An SC.W that does nothing at all when its destination is x0.
ScW_skipping_x0(h, i, npc) ==
    LET addr == get_reg(h.regs, i.rs1)
        h1   == [h EXCEPT !.amo_rsv = None]
    IN  IF Unaligned(addr) THEN Ret(h, UnalignedMemoryAccess(addr))
        ELSE IF i.rd = Zero THEN Eff(h, npc)
        ELSE IF h.amo_rsv = Some(addr)
        THEN Eff(WriteReg([h1 EXCEPT !.mem =
                              store_u32(@, addr, get_reg(h.regs, i.rs2))],
                          i.rd, 0), npc)
        ELSE Eff(WriteReg(h1, i.rd, 1), npc)

\* An SC.W with the success codes of the other interpreter path: 1 on
\* success and 0 on failure.
ScW_swapped(h, i, npc) ==
    LET addr == get_reg(h.regs, i.rs1)
        h1   == [h EXCEPT !.amo_rsv = None]
    IN  IF Unaligned(addr) THEN Ret(h, UnalignedMemoryAccess(addr))
        ELSE IF h.amo_rsv = Some(addr)
        THEN Eff(WriteReg([h1 EXCEPT !.mem =
                              store_u32(@, addr, get_reg(h.regs, i.rs2))],
                          i.rd, 1), npc)
        ELSE Eff(WriteReg(h1, i.rd, 0), npc)

\* An SC.W that stores whatever the reservation holds.
ScW_unconditional(h, i, npc) ==
    LET addr == get_reg(h.regs, i.rs1)
        h1   == [h EXCEPT !.amo_rsv = None]
    IN  IF Unaligned(addr) THEN Ret(h, UnalignedMemoryAccess(addr))
        ELSE Eff(WriteReg([h1 EXCEPT !.mem =
                              store_u32(@, addr, get_reg(h.regs, i.rs2))],
                          i.rd, IF h.amo_rsv = Some(addr) THEN 0 ELSE 1), npc)

\* Rv32a::ScW: amo_rsv.take() empties the reservation in both branches.
ScW(h, i, npc) ==
    LET addr == get_reg(h.regs, i.rs1)
        h1   == [h EXCEPT !.amo_rsv = None]
    IN  IF Unaligned(addr) THEN Ret(h, UnalignedMemoryAccess(addr))
        ELSE IF h.amo_rsv = Some(addr)
        THEN Eff(WriteReg([h1 EXCEPT !.mem =
                              store_u32(@, addr, get_reg(h.regs, i.rs2))],
                          i.rd, 0), npc)
        ELSE Eff(WriteReg(h1, i.rd, 1), npc)

ExecRv32a(h, i, npc) ==
    CASE i.op = "LR.W"      -> LrW(h, i, npc)
      [] i.op = "SC.W"      -> ScW(h, i, npc)
      [] i.op = "AMOSWAP.W" -> amo_op(h, i, npc)
      [] i.op = "AMOADD.W"  -> amo_op(h, i, npc)
      [] i.op = "AMOXOR.W"  -> amo_op(h, i, npc)
      [] i.op = "AMOOR.W"   -> amo_op(h, i, npc)
      [] i.op = "AMOAND.W"  -> amo_op(h, i, npc)
      [] i.op = "AMOMIN.W"  -> amo_op(h, i, npc)
      [] i.op = "AMOMAX.W"  -> amo_op(h, i, npc)
      [] i.op = "AMOMINU.W" -> amo_op(h, i, npc)
      [] i.op = "AMOMAXU.W" -> amo_op(h, i, npc)

\* ------------------------------------------------------------------------
\* match op { Rv32::Rv32c(c) => ... }
\* In the compressed forms the field rs1rd is held in rd.
\* ------------------------------------------------------------------------

\* Rv32c::CJr: next_pc = reg!(cjr.rs1())
CJr(h, i) == Eff(h, get_reg(h.regs, i.rs1))

\* Rv32c::CJalr: ra is written first, then rs1 is read for next_pc.
CJalr(h, i, npc) ==
    LET h1 == WriteReg(h, Ra, npc)
    IN  Eff(h1, get_reg(h1.regs, i.rs1))

\* C.ADDI4SPN adding the immediate to rd instead of sp.
CAddi4spn_from_rd(h, i, npc) ==
    Eff(WriteReg(h, i.rd, WrapAdd(get_reg(h.regs, i.rd), i.imm)), npc)

\* Rv32c::CAddi4spn: rd = sp + imm
CAddi4spn(h, i, npc) ==
    Eff(WriteReg(h, i.rd, WrapAdd(get_reg(h.regs, Sp), i.imm)), npc)

ExecRv32c(h, i, npc, k) ==
    LET rd  == get_reg(h.regs, i.rd)
        rs1 == get_reg(h.regs, i.rs1)
        rs2 == get_reg(h.regs, i.rs2)
        sp  == get_reg(h.regs, Sp)
        imm == i.imm
    IN  CASE i.op = "C.ADDI4SPN" -> CAddi4spn(h, i, npc)
          [] i.op = "C.LW"   ->
                Eff(WriteReg(h, i.rd, load_u32(h.mem, WrapAdd(rs1, imm))), npc)
          [] i.op = "C.SW"   ->
                Eff([h EXCEPT !.mem = store_u32(@, WrapAdd(rs1, imm), rs2)], npc)
          [] i.op = "C.ADDI" -> Eff(WriteReg(h, i.rd, WrapAdd(rd, imm)), npc)
          [] i.op = "C.ADDI16SP" -> Eff(WriteReg(h, i.rd, WrapAdd(sp, imm)), npc)
          [] i.op = "C.LWSP" ->
                Eff(WriteReg(h, i.rd, load_u32(h.mem, WrapAdd(sp, imm))), npc)
          [] i.op = "C.SWSP" ->
                Eff([h EXCEPT !.mem = store_u32(@, WrapAdd(sp, imm), rs2)], npc)
          [] i.op = "C.NOP"  -> Eff(h, npc)
          [] i.op = "C.JAL"  -> Eff(WriteReg(h, Ra, npc), WrapAdd(h.pc, imm))
          [] i.op = "C.LI"   -> Eff(WriteReg(h, i.rd, imm), npc)
          [] i.op = "C.LUI"  -> Eff(WriteReg(h, i.rd, imm), npc)
          [] i.op = "C.SRLI" -> Eff(WriteReg(h, i.rd, Shr(rd, imm)), npc)
          [] i.op = "C.SRAI" -> Eff(WriteReg(h, i.rd, Sar(rd, imm)), npc)
          [] i.op = "C.ANDI" -> Eff(WriteReg(h, i.rd, BitAnd(rd, imm)), npc)
          [] i.op = "C.SUB"  -> Eff(WriteReg(h, i.rd, WrapSub(rd, rs2)), npc)
          [] i.op = "C.XOR"  -> Eff(WriteReg(h, i.rd, BitXor(rd, rs2)), npc)
          [] i.op = "C.OR"   -> Eff(WriteReg(h, i.rd, BitOr(rd, rs2)), npc)
          [] i.op = "C.AND"  -> Eff(WriteReg(h, i.rd, BitAnd(rd, rs2)), npc)
          [] i.op = "C.J"    -> Eff(h, WrapAdd(h.pc, imm))
          [] i.op = "C.BEQZ" -> Eff(h, IF rs1 = 0 THEN WrapAdd(h.pc, imm) ELSE npc)
          [] i.op = "C.BNEZ" -> Eff(h, IF rs1 # 0 THEN WrapAdd(h.pc, imm) ELSE npc)
          [] i.op = "C.SLLI" -> Eff(WriteReg(h, i.rd, Shl(rd, imm)), npc)
          [] i.op = "C.JR"   -> CJr(h, i)
          [] i.op = "C.MV"   -> Eff(WriteReg(h, i.rd, rs2), npc)
          [] i.op = "C.EBREAK" -> kernel_call(h, npc, k, "ebreak")
          [] i.op = "C.JALR" -> CJalr(h, i, npc)
          [] i.op = "C.ADD"  -> Eff(WriteReg(h, i.rd, WrapAdd(rd, rs2)), npc)
          [] i.op = "C.UNIMP" -> IllegalInstruction(h)

\* ------------------------------------------------------------------------
\* Hart32::step
\* ------------------------------------------------------------------------

Rv32iOps ==
    {"LUI", "AUIPC", "JAL", "JALR", "BEQ", "BNE", "BLT", "BGE", "BLTU", "BGEU",
     "LB", "LH", "LW", "LBU", "LHU", "SB", "SH", "SW", "ADDI", "SLTI", "SLTIU",
     "XORI", "ORI", "ANDI", "SLLI", "SRLI", "SRAI", "ADD", "SUB", "SLL", "SLT",
     "SLTU", "XOR", "SRL", "SRA", "OR", "AND", "FENCE", "FENCE.I", "ECALL",
     "EBREAK", "UNIMP"}
Rv32mOps == {"MUL", "MULH", "MULHSU", "MULHU", "DIV", "DIVU", "REM", "REMU"}
Rv32sOps ==
    {"URET", "SRET", "HRET", "MRET", "DRET", "SFENCE.VM", "SFENCE.VMA", "WFI",
     "CSRRW", "CSRRS", "CSRRC", "CSRRWI", "CSRRSI", "CSRRCI"}
AmoOps ==
    {"AMOSWAP.W", "AMOADD.W", "AMOXOR.W", "AMOOR.W", "AMOAND.W", "AMOMIN.W",
     "AMOMAX.W", "AMOMINU.W", "AMOMAXU.W"}
Rv32aOps == {"LR.W", "SC.W"} \cup AmoOps
KernelOps == {"ECALL", "EBREAK", "C.EBREAK"}

\* The memory collaborator serves only addresses inside the store; what it
\* does with others is its own contract.  AccessOk holds when every access the
\* instruction makes lies inside the modelled store.
AccessOk(h, i) ==
    LET rs1 == get_reg(h.regs, i.rs1)
        la  == WrapAdd(rs1, i.imm)
        spa == WrapAdd(get_reg(h.regs, Sp), i.imm)
    IN  CASE i.op \in {"LB", "LBU", "SB"} -> InMem(la, 1)
          [] i.op \in {"LH", "LHU", "SH"} -> InMem(la, 2)
          [] i.op \in {"LW", "SW", "C.LW", "C.SW"} -> InMem(la, 4)
          [] i.op \in {"C.LWSP", "C.SWSP"} -> InMem(spa, 4)
          [] i.op \in Rv32aOps -> Unaligned(rs1) \/ InMem(rs1, 4)
          [] OTHER -> TRUE

\* let op = Rv32::parse(inst).ok_or(InvalidInstruction)?; ...; match op { ... }
Exec(h, i, k) ==
    LET npc == WrapAdd(h.pc, inc(i.op))
    IN  CASE i.op = "UNKNOWN"  -> InvalidInstruction(h, i.raw)
          [] i.op \in Rv32iOps -> ExecRv32i(h, i, npc, k)
          [] i.op \in Rv32mOps -> ExecRv32m(h, i, npc)
          [] i.op \in Rv32sOps -> ExecRv32s(h, i, npc)
          [] i.op \in Rv32aOps -> ExecRv32a(h, i, npc)
          [] i.op \in Rv32cOps -> ExecRv32c(h, i, npc, k)
          [] OTHER             -> UnimplementedInstruction(h)

\* A retirement that advances pc without counting the instruction.
Retire_without_count(e) ==
    IF e.res.kind = "Ok" THEN [e.h EXCEPT !.pc = e.next_pc] ELSE e.h

\* A retirement that also counts and advances on an early return.
Retire_always(e) == [e.h EXCEPT !.inst_count = @ + 1, !.pc = e.next_pc]

\* self.inst_count += 1; self.pc = next_pc; Ok(StepResult::Ok): reached only
\* when no arm returned early.
Retire(e) ==
    IF e.res.kind = "Ok"
    THEN [e.h EXCEPT !.inst_count = @ + 1, !.pc = e.next_pc]
    ELSE e.h

\* The most recent of the LR.W and SC.W that got past their alignment check,
\* as the steps so far saw them: Some(address) for an LR.W, None for an SC.W
\* or when there was neither.
LastLrSc ==
    IF result.kind = "Ok" /\ inst.op = "LR.W"
    THEN Some(get_reg(pre.regs, inst.rs1))
    ELSE IF result.kind = "Ok" /\ inst.op = "SC.W" THEN None ELSE pre.last

\* One call of step on the instruction i found at pc, with the answer k of the
\* kernel should the instruction call it; d is the raw word and its fields.
Step(i, k, bound, d) ==
    /\ calls < bound
    /\ AccessOk(Cur, i)
    /\ \E e \in {Exec(Cur, i, k)} :
         \E h \in {Retire(e)} :
           /\ regs' = h.regs
           /\ csrs' = h.csrs
           /\ pc' = h.pc
           /\ inst_count' = h.inst_count
           /\ amo_rsv' = h.amo_rsv
           /\ mem' = h.mem
           /\ result' = e.res
           /\ oks' = IF e.res.kind = "Ok" THEN oks + 1 ELSE oks
           /\ pre' = [regs |-> regs, csrs |-> csrs, pc |-> pc,
                      inst_count |-> inst_count, amo_rsv |-> amo_rsv,
                      mem |-> mem,
                      hook |-> e.hook,
                      last |-> LastLrSc,
                      lr |-> (inst.op = "LR.W" /\ result.kind = "Ok")]
    /\ calls' = calls + 1
    /\ inst' = i
    /\ decoded' = d

\* ------------------------------------------------------------------------
\* Programs, kernel answers and loaded images
\* ------------------------------------------------------------------------

Ins(op, rd, rs1, rs2, imm) ==
    [op |-> op, rd |-> rd, rs1 |-> rs1, imm |-> imm, csr |-> 768, rs2 |-> rs2,
     raw |-> 0]
InsCsr(op, rd, rs1, imm, csr) ==
    [op |-> op, rd |-> rd, rs1 |-> rs1, imm |-> imm, csr |-> csr, rs2 |-> 0,
     raw |-> 0]

\* A word Rv32::parse answers None for; step keeps the word for the error.
InsUnknown(w) ==
    [op |-> "UNKNOWN", rd |-> 0, rs1 |-> 0, imm |-> 0, csr |-> 768, rs2 |-> 0,
     raw |-> w]

NoInst == Ins("NONE", 0, 0, 0, 0)
NoResult == [inst |-> 0, kind |-> "None", err |-> "", addr |-> 0, required |-> 0]
NoKernel == [out |-> "Ok", ret |-> 0]
KernelAnswers == {[out |-> o, ret |-> 7] : o \in {"Ok", "Exit", "Break", "Err"}}
KernelFor(i) == IF i.op \in KernelOps THEN KernelAnswers ELSE {NoKernel}

\* ------------------------------------------------------------------------
\* The decoder's field accessors (generated bit extraction)
\* ------------------------------------------------------------------------

\* rd(), rs1(), rs2(): (self.0 >> 7) & 0b11111, >> 15, >> 20.
FieldRd(w) == BitAnd(Shr(w, 7), 31)
FieldRs1(w) == BitAnd(Shr(w, 15), 31)
FieldRs2(w) == BitAnd(Shr(w, 20), 31)

\* Addi::imm and the other I-type forms:
\* ((((self.0 >> 20) & 0b111111111111) << 21) as i32) >> 21
ITypeImm(w) == Sar(Shl(BitAnd(Shr(w, 20), 4095), 21), 21)

\* Sb::imm, Sh::imm, Sw::imm, Fsd::imm:
\* (((((self.0 >> 20) & 0b111111100000) | ((self.0 >> 7) & 0b11111)) << 21)
\*     as i32) >> 21
STypeImm(w) ==
    Sar(Shl(BitOr(BitAnd(Shr(w, 20), 4064), BitAnd(Shr(w, 7), 31)), 21), 21)

\* Beq::imm and the other branches:
\* ((((((self.0 >> 19) & 0b1000000000000) | ((self.0 >> 20) & 0b11111100000))
\*     | (((self.0 >> 7) & 0b11110) | ((self.0 << 4) & 0b100000000000)))
\*     << 20) as i32) >> 20
BTypeImm(w) ==
    Sar(Shl(BitOr(BitOr(BitAnd(Shr(w, 19), 4096), BitAnd(Shr(w, 20), 2016)),
                  BitOr(BitAnd(Shr(w, 7), 30), BitAnd(Shl(w, 4), 2048))),
            20), 20)

\* Jal::imm:
\* (((((self.0 >> 11) & 0b100000000000000000000) | ((self.0 >> 20) & 0b11111111110)
\*     | ((self.0 >> 9) & 0b100000000000) | (self.0 & 0b11111111000000000000))
\*     << 12) as i32) >> 12
JTypeImm(w) ==
    Sar(Shl(BitOr(BitOr(BitOr(BitAnd(Shr(w, 11), 1048576),
                              BitAnd(Shr(w, 20), 2046)),
                        BitAnd(Shr(w, 9), 2048)),
                  BitAnd(w, 1044480)),
            12), 12)

\* Lui::imm, Auipc::imm:
\* (((self.0 & 0b11111111111111111111000000000000) << 1) as i32) >> 1
UTypeImm(w) == Sar(Shl(BitAnd(w, -4096), 1), 1)

\* Slli::shamt, Srli::shamt, Srai::shamt: (self.0 >> 20) & 0b111111
Shamt(w) == BitAnd(Shr(w, 20), 63)

\* The results of the accessors on the raw word w.
Accessors(w) ==
    [some |-> TRUE,
     rd |-> FieldRd(w), rs1 |-> FieldRs1(w), rs2 |-> FieldRs2(w), raw |-> w,
     i_imm |-> ITypeImm(w), s_imm |-> STypeImm(w), b_imm |-> BTypeImm(w),
     j_imm |-> JTypeImm(w), u_imm |-> UTypeImm(w), shamt |-> Shamt(w)]

\* No raw word: the instruction was handed to step already decoded.
NotDecoded ==
    [some |-> FALSE, rd |-> 0, rs1 |-> 0, rs2 |-> 0, raw |-> 0, i_imm |-> 0,
     s_imm |-> 0, b_imm |-> 0, j_imm |-> 0, u_imm |-> 0, shamt |-> 0]

\* The classification of a 32-bit word by Rv32::parse, for the major opcodes
\* of the base integer formats: opcode bits[6:0], funct3 bits[14:12] and, for
\* the immediate shifts, funct7 bits[31:25].
ParseOp(w) ==
    LET opcode == w % 128
        funct3 == BitAnd(Shr(w, 12), 7)
        funct7 == BitAnd(Shr(w, 25), 127)
    IN  CASE opcode = 55  -> "LUI"
          [] opcode = 23  -> "AUIPC"
          [] opcode = 111 -> "JAL"
          [] opcode = 103 /\ funct3 = 0 -> "JALR"
          [] opcode = 99 /\ funct3 = 0 -> "BEQ"
          [] opcode = 99 /\ funct3 = 1 -> "BNE"
          [] opcode = 3 /\ funct3 = 2 -> "LW"
          [] opcode = 35 /\ funct3 = 2 -> "SW"
          [] opcode = 19 /\ funct3 = 0 -> "ADDI"
          [] opcode = 19 /\ funct3 = 1 /\ funct7 = 0 -> "SLLI"
          [] opcode = 19 /\ funct3 = 5 /\ funct7 = 0 -> "SRLI"
          [] opcode = 19 /\ funct3 = 5 /\ funct7 = 32 -> "SRAI"
          [] OTHER -> "UNKNOWN"

\* The decoded instruction step works on: the mnemonic with the fields its
\* arm reads through the accessors.
InsOfWord(w) ==
    LET op == ParseOp(w)
        d  == Accessors(w)
    IN  CASE op \in {"LUI", "AUIPC"} -> Ins(op, d.rd, 0, 0, d.u_imm)
          [] op = "JAL" -> Ins(op, d.rd, 0, 0, d.j_imm)
          [] op \in {"JALR", "LW", "ADDI"} -> Ins(op, d.rd, d.rs1, 0, d.i_imm)
          [] op \in {"BEQ", "BNE"} -> Ins(op, 0, d.rs1, d.rs2, d.b_imm)
          [] op = "SW" -> Ins(op, 0, d.rs1, d.rs2, d.s_imm)
          [] op \in {"SLLI", "SRLI", "SRAI"} -> Ins(op, d.rd, d.rs1, 0, d.shamt)
          [] OTHER -> InsUnknown(w)

\* Hart32::new() and an empty memory.
Init ==
    /\ regs = [r \in Reg |-> 0]
    /\ csrs = [c \in CsrIdx |-> 0]
    /\ pc = 0
    /\ inst_count = 0
    /\ amo_rsv = None
    /\ mem = [a \in 0..(MemSize - 1) |-> 0]
    /\ inst = NoInst
    /\ result = NoResult
    /\ pre = [regs |-> [r \in Reg |-> 0], csrs |-> [c \in CsrIdx |-> 0], pc |-> 0,
              inst_count |-> 0, amo_rsv |-> None,
              mem |-> [a \in 0..(MemSize - 1) |-> 0],
              hook |-> NoHook, last |-> None, lr |-> FALSE]
    /\ calls = 0
    /\ oks = 0
    /\ decoded = NotDecoded

\* The loader's register writes, each through set_reg.
RECURSIVE LoadRegs(_, _)
LoadRegs(rf, ws) ==
    IF ws = <<>> THEN rf
    ELSE LoadRegs(set_reg(rf, ws[1][1], ws[1][2]), Tail(ws))

\* The loader's memory image: 32-bit words at the given addresses.
RECURSIVE LoadWords(_, _)
LoadWords(m, ws) ==
    IF ws = <<>> THEN m
    ELSE LoadWords(store_u32(m, ws[1][1], ws[1][2]), Tail(ws))

\* The loader overrides the fresh hart (pc, sp, argument registers) and fills
\* the memory, once, before the first step.
Load(img) ==
    /\ calls = 0
    /\ pc = 0
    /\ regs = [r \in Reg |-> 0]
    /\ mem = [a \in 0..(MemSize - 1) |-> 0]
    /\ regs' = LoadRegs(regs, img.regs)
    /\ pc' = img.pc
    /\ mem' = LoadWords(mem, img.words)
    /\ UNCHANGED <<csrs, inst_count, amo_rsv, inst, result, pre, calls, oks,
                   decoded>>

\* The images the loader leaves behind: x1, x4 and x8 hold word addresses
\* inside the store, x2 (sp) an address that is not a multiple of 4, and x3
\* and x9 data.
Images ==
    {[regs  |-> <<<<1, 4>>, <<2, 1>>, <<3, -1>>, <<9, 35>>>>,
      pc    |-> 4096,
      words |-> <<<<0, 5>>, <<4, -2>>>>],
     [regs  |-> <<<<2, 2>>, <<3, MinI32>>, <<4, 4>>, <<8, 4>>, <<9, -1>>>>,
      pc    |-> -2,
      words |-> <<<<0, MinI32>>, <<4, 7>>>>],
     [regs  |-> <<<<1, 4>>, <<2, 3>>, <<3, 6>>, <<4, 4>>, <<9, MaxI32>>>>,
      pc    |-> 2,
      words |-> <<<<0, -1>>, <<4, 1>>>>]}

InsSet(ops, rds, rs1s, rs2s, imms) ==
    {Ins(o, d, a, b, m) : o \in ops, d \in rds, a \in rs1s, b \in rs2s, m \in imms}

ProgRv32i ==
    InsSet({"LUI", "AUIPC"}, {0, 5}, {0}, {0}, {4096, MinI32})
    \cup InsSet({"JAL"}, {0, 1}, {0}, {0}, {8, -4})
    \cup InsSet({"JALR"}, {0, 1}, {1, 2}, {0}, {0, 1, -1})
    \cup InsSet({"BEQ", "BNE", "BLT", "BGE", "BLTU", "BGEU"},
                {0}, {1, 3}, {3, 9}, {8, -8})
    \cup InsSet({"LB", "LH", "LW", "LBU", "LHU"}, {0, 1, 5}, {1, 4}, {0}, {0, -3})
    \cup InsSet({"SB", "SH", "SW"}, {0}, {1, 4}, {0, 3}, {0, -3})
    \cup InsSet({"ADDI", "SLTI", "SLTIU", "XORI", "ORI", "ANDI"},
                {0, 5}, {1, 3}, {0}, {-3})
    \cup InsSet({"SLLI", "SRLI", "SRAI"}, {0, 5}, {1, 3}, {0}, {31})
    \cup InsSet({"ADD", "SUB", "SLL", "SLT", "SLTU", "XOR", "SRL", "SRA", "OR",
                 "AND"}, {0, 5}, {1, 3}, {3, 9}, {0})
    \cup InsSet({"FENCE", "FENCE.I", "ECALL", "EBREAK", "UNIMP"},
                {0}, {0}, {0}, {0})
    \cup InsSet({"FENCE"}, {0}, {0}, {0}, {255})

ProgRv32m == InsSet(Rv32mOps, {0, 5}, {1, 3}, {0, 9}, {0})

ProgRv32s ==
    InsSet({"URET", "SRET", "HRET", "MRET", "DRET", "SFENCE.VM", "SFENCE.VMA",
            "WFI"}, {0}, {0}, {0}, {0})
    \cup {InsCsr(o, d, a, 0, c) :
            o \in {"CSRRW", "CSRRS", "CSRRC"}, d \in {0, 3, 5}, a \in {3, 9},
            c \in {768}}
    \cup {InsCsr(o, d, 0, m, c) :
            o \in {"CSRRWI", "CSRRSI", "CSRRCI"}, d \in {0, 5}, m \in {21},
            c \in {832}}

ProgRv32a ==
    InsSet({"LR.W"}, {0, 1, 5}, {1, 2, 4}, {0}, {0})
    \cup InsSet({"SC.W"}, {0, 3, 5}, {1, 2, 4}, {3}, {0})
    \cup InsSet(AmoOps, {0, 1, 3, 5}, {1, 2}, {3}, {0})

ProgRv32c ==
    InsSet({"C.ADDI4SPN"}, {8}, {0}, {0}, {4})
    \cup InsSet({"C.LW"}, {9}, {8}, {0}, {0})
    \cup InsSet({"C.SW"}, {0}, {8}, {9}, {0})
    \cup InsSet({"C.ADDI", "C.LI"}, {1, 5}, {0}, {0}, {-1, 1})
    \cup InsSet({"C.SLLI"}, {1, 5}, {0}, {0}, {1, 31})
    \cup InsSet({"C.ADDI16SP"}, {2}, {0}, {0}, {16, -16})
    \cup InsSet({"C.LUI"}, {5}, {0}, {0}, {4096, -4096})
    \cup InsSet({"C.LWSP"}, {5}, {0}, {0}, {0})
    \cup InsSet({"C.SWSP"}, {0}, {0}, {3}, {0})
    \cup InsSet({"C.NOP", "C.EBREAK", "C.UNIMP"}, {0}, {0}, {0}, {0})
    \cup InsSet({"C.JAL", "C.J"}, {0}, {0}, {0}, {6, -2})
    \cup InsSet({"C.SRLI", "C.SRAI"}, {8, 9}, {0}, {0}, {1, 31})
    \cup InsSet({"C.ANDI"}, {8, 9}, {0}, {0}, {-2})
    \cup InsSet({"C.SUB", "C.XOR", "C.OR", "C.AND"}, {8, 9}, {0}, {8, 9}, {0})
    \cup InsSet({"C.BEQZ", "C.BNEZ"}, {0}, {8, 9}, {0}, {4, -4})
    \cup InsSet({"C.JR", "C.JALR"}, {0}, {1, 2, 3}, {0}, {0})
    \cup InsSet({"C.MV", "C.ADD"}, {1, 5}, {0}, {1, 3}, {0})

\* A word the decoder does not classify, and one it puts in a subset step has
\* no arm for.
ProgOther == {InsUnknown(-1), InsUnknown(127), Ins("FLD", 0, 0, 0, 0)}

Prog ==
    ProgRv32i \cup ProgRv32m \cup ProgRv32s \cup ProgRv32a \cup ProgRv32c
    \cup ProgOther

\* The instructions a run is continued with after its first MaxCalls calls.
ProgSeq ==
    {Ins("ADDI", 5, 1, 0, -3), Ins("ADDI", 0, 3, 0, 5), Ins("C.ADDI", 1, 0, 0, 1),
     Ins("C.BNEZ", 0, 8, 0, 6), Ins("BEQ", 0, 1, 4, 8), Ins("JAL", 1, 0, 0, 8),
     Ins("LW", 0, 4, 0, 0), Ins("SW", 0, 4, 3, 0), Ins("ECALL", 0, 0, 0, 0),
     Ins("UNIMP", 0, 0, 0, 0), Ins("MRET", 0, 0, 0, 0),
     InsUnknown(-1), Ins("AMOADD.W", 0, 2, 3, 0),
     InsCsr("CSRRC", 3, 3, 0, 768), InsCsr("CSRRS", 5, 9, 0, 768),
     InsCsr("CSRRCI", 5, 0, 5, 832), InsCsr("CSRRSI", 0, 0, 10, 832)}

\* A raw word from its fields: opcode, bits[11:7], bits[14:12], bits[19:15]
\* and bits[31:20].
Enc(opcode, f7_11, f12_14, f15_19, f20_31) ==
    WrapAdd(opcode + 128 * f7_11 + 4096 * f12_14 + 32768 * f15_19,
            Shl(f20_31, 20))

\* Values of bits[31:20]: both signs, the extremes of the 12-bit range, bit
\* 30 and bit 25 alone, and shift amounts with and without bit 30.
Hi12 ==
    {0, 1, 5, 31, 32, 1023, 1024, 1029, 1055, 2047, 2048, 2049, 3072, 4064,
     4095}
Hi12Reg == {0, 1, 5, 32, 1024, 1029, 2018, 2048, 2049, 3072, 4064}

\* The raw words of the modelled code.
Words ==
    {Enc(19, d, f, a, h) : d \in {5}, f \in {0, 1, 5}, a \in {1, 3}, h \in Hi12}
    \cup {Enc(19, 0, 0, 3, h) : h \in {5, 4095}}
    \cup {Enc(3, 5, 2, a, h) : a \in {0, 1}, h \in Hi12}
    \cup {Enc(103, 1, 0, a, h) : a \in {1, 2}, h \in Hi12}
    \cup {Enc(35, d, 2, a, h) : d \in {0, 4, 31}, a \in {0, 1}, h \in Hi12Reg}
    \cup {Enc(99, d, f, 1, h) : d \in {0, 1, 8, 31}, f \in {0, 1}, h \in Hi12Reg}
    \cup {Enc(111, 1, f, a, h) : f \in {0, 7}, a \in {0, 16, 31}, h \in Hi12}
    \cup {Enc(o, 5, f, a, h) :
            o \in {55, 23}, f \in {0, 7}, a \in {0, 31}, h \in Hi12}

\* ------------------------------------------------------------------------
\* Specifications
\* ------------------------------------------------------------------------

Loader == \E img \in Images : Load(img)

\* Any instruction of the modelled programs.
StepAny == \E i \in Prog : \E k \in KernelFor(i) : Step(i, k, MaxCalls, NotDecoded)

\* A further instruction of a short continuation.
StepSeq == \E i \in ProgSeq : \E k \in KernelFor(i) : Step(i, k, MaxSeqCalls, NotDecoded)

Next == Loader \/ StepAny \/ StepSeq

Spec == Init /\ [][Next]_vars

\* The atomic instructions alone, over longer runs.
StepAtomic == \E i \in ProgRv32a : Step(i, NoKernel, MaxAtomicCalls, NotDecoded)

NextAtomic == Loader \/ StepAtomic

SpecAtomic == Init /\ [][NextAtomic]_vars

\* Raw words: each is fetched, decoded through the accessors and executed.
StepWord ==
    \E w \in Words : Step(InsOfWord(w), NoKernel, MaxWordCalls, Accessors(w))

NextDecode == Loader \/ StepWord

SpecDecode == Init /\ [][NextDecode]_vars

\* Reservations over longer runs: LR.W and SC.W to two addresses, aligned
\* and not, with a store, an AMO, loads, a branch, jumps, CSR accesses and a
\* failing instruction between them, several with x0 for destination.
MaxRsvCalls == 4

ProgRsv ==
    {Ins("LR.W", 5, 1, 0, 0), Ins("LR.W", 5, 8, 0, 0), Ins("LR.W", 5, 2, 0, 0),
     Ins("SC.W", 5, 1, 3, 0), Ins("SC.W", 0, 8, 3, 0), Ins("SC.W", 5, 2, 3, 0),
     Ins("SW", 0, 1, 3, 0), Ins("AMOADD.W", 0, 1, 3, 0), Ins("LW", 5, 1, 0, 0),
     Ins("BEQ", 0, 1, 1, 8), InsCsr("CSRRW", 0, 3, 0, 768),
     InsCsr("CSRRC", 0, 9, 0, 768), Ins("JAL", 0, 0, 0, -4),
     Ins("JALR", 0, 1, 0, 8), Ins("LW", 0, 8, 0, 0), Ins("UNIMP", 0, 0, 0, 0)}

StepRsv == \E i \in ProgRsv : Step(i, NoKernel, MaxRsvCalls, NotDecoded)

NextRsv == Loader \/ StepRsv

SpecRsv == Init /\ [][NextRsv]_vars

\* ------------------------------------------------------------------------
\* The second interpreter: Hart32::run of vm/src/cpu.rs
\* ------------------------------------------------------------------------

MaxRunCalls == 2

\* Memory::pointer: the host pointer of a guest address; two pointers are
\* equal exactly when the addresses are.
pointer(addr) == addr

\* What one iteration of the loop of run ends in besides Eff and Ret: the
\* panic of an arithmetic overflow in a build that checks for it.
Panic(h) ==
    [h |-> h, next_pc |-> h.pc,
     res |-> [inst |-> 0, kind |-> "Panic", err |-> "", addr |-> 0,
              required |-> 0],
     hook |-> NoHook]

\* Rv32a::LrW of run: the reservation is the pair (pointer, loaded value).
RunLrW(h, i, npc) ==
    LET addr == get_reg(h.regs, i.rs1)
        val  == load_u32(h.mem, addr)
    IN  IF Unaligned(addr) THEN {Ret(h, UnalignedMemoryAccess(addr))}
        ELSE {Eff(WriteReg([h EXCEPT !.amo_rsv = Some(<<pointer(addr), val>>)],
                           i.rd, val), npc)}

\* Rv32a::ScW of run: the store happens when the reservation is the pair
\* (pointer, rs2), and rd is then 1; otherwise rd is 0.  The reservation is
\* left as it is.
RunScW(h, i, npc) ==
    LET addr == get_reg(h.regs, i.rs1)
        val  == get_reg(h.regs, i.rs2)
    IN  IF Unaligned(addr) THEN {Ret(h, UnalignedMemoryAccess(addr))}
        ELSE IF h.amo_rsv.some /\ h.amo_rsv.val = <<pointer(addr), val>>
        THEN {Eff(WriteReg([h EXCEPT !.mem = store_u32(@, addr, val)],
                           i.rd, 1), npc)}
        ELSE {Eff(WriteReg(h, i.rd, 0), npc)}

\* Rv32m::Mulh of run: ((rs1 as i64 * rs2 as i64) >> 32) as u32 on u32
\* operands, which `as i64` extends with zeros.  A product of 2^63 or more
\* overflows i64: the build either panics or wraps.
RunMulh(h, i, npc) ==
    LET rs1  == get_reg(h.regs, i.rs1)
        rs2  == get_reg(h.regs, i.rs2)
        prod == Mul64(ZExt64(rs1), ZExt64(rs2))
    IN  {Eff(reg_reg_op(h, i, High32(prod)), npc)}
        \cup (IF High32(prod) < 0 THEN {Panic(h)} ELSE {})

\* Rv32i::Sw of run
RunSw(h, i, npc) ==
    {Eff([h EXCEPT !.mem = store_u32(@, store_addr(h, i), get_reg(h.regs, i.rs2))],
         npc)}

\* The iterations of the loop of run on the instructions of ProgRun: the
\* outcomes the build can produce.
RunExec(h, i) ==
    LET npc == WrapAdd(h.pc, inc(i.op))
    IN  CASE i.op = "LR.W" -> RunLrW(h, i, npc)
          [] i.op = "SC.W" -> RunScW(h, i, npc)
          [] i.op = "MULH" -> RunMulh(h, i, npc)
          [] i.op = "SW"   -> RunSw(h, i, npc)

\* One iteration of `while self.running`, ending with inst_count += 1 and
\* pc = next_pc unless the arm returned or panicked.
RunIteration(i) ==
    /\ calls < MaxRunCalls
    /\ result.kind \in {"None", "Ok"}
    /\ AccessOk(Cur, i)
    /\ \E e \in RunExec(Cur, i) :
         \E h \in {Retire(e)} :
           /\ regs' = h.regs
           /\ csrs' = h.csrs
           /\ pc' = h.pc
           /\ inst_count' = h.inst_count
           /\ amo_rsv' = h.amo_rsv
           /\ mem' = h.mem
           /\ result' = e.res
           /\ oks' = IF e.res.kind = "Ok" THEN oks + 1 ELSE oks
           /\ pre' = [regs |-> regs, csrs |-> csrs, pc |-> pc,
                      inst_count |-> inst_count, amo_rsv |-> amo_rsv,
                      mem |-> mem,
                      hook |-> e.hook,
                      last |-> LastLrSc,
                      lr |-> (inst.op = "LR.W" /\ result.kind = "Ok")]
    /\ calls' = calls + 1
    /\ inst' = i
    /\ decoded' = NotDecoded

\* The instructions run is driven with: reservations, conditional stores
\* with and without the loaded value in rs2, a plain store and MULH.
ProgRun ==
    InsSet({"LR.W"}, {3, 5}, {1, 2, 4}, {0}, {0})
    \cup InsSet({"SC.W"}, {0, 5}, {1, 2, 4}, {3, 9}, {0})
    \cup InsSet({"SW"}, {0}, {4}, {3}, {0})
    \cup InsSet({"MULH"}, {0, 5}, {1, 3}, {3, 9}, {0})

StepRun == \E i \in ProgRun : RunIteration(i)

NextRun == Loader \/ StepRun

SpecRun == Init /\ [][NextRun]_vars

\* ------------------------------------------------------------------------
\* Properties
\* ------------------------------------------------------------------------

\* The operands of the last instruction, read in the state its step began in.
PreRs1 == get_reg(pre.regs, inst.rs1)
PreRs2 == get_reg(pre.regs, inst.rs2)
Succeeded == result.kind = "Ok"
Failed == result.kind = "Err"

\* Values handed to set_reg in the properties about x0.
X0Values == {1, -1, 7, MinI32, MaxI32}

\* C1: in every state reachable from a new hart by any sequence of step
\* calls, successful or failing, regs[0] is 0 and get_reg(x0) returns 0, and
\* set_reg(x0, v) leaves regs[0] at 0 for every v.
X0_Is_Zero ==
    /\ regs[Zero] = 0
    /\ get_reg(regs, Zero) = 0
    /\ \A v \in X0Values : set_reg(regs, Zero, v)[Zero] = 0

\* C1 happens: an ADDI with destination x0 and a non-zero sum has retired.
X0_Is_Zero_Witness ==
    /\ Succeeded
    /\ inst.op = "ADDI"
    /\ inst.rd = Zero
    /\ WrapAdd(PreRs1, inst.imm) # 0

\* C2: a step that returns Ok(StepResult::Ok) adds exactly 1 to inst_count,
\* for compressed and 32-bit instructions alike, any other outcome leaves it
\* alone, so inst_count is the number of steps that returned StepResult::Ok.
InstCount_Counts_Ok_Steps ==
    /\ inst_count = oks
    /\ inst_count >= pre.inst_count
    /\ calls > 0 =>
         inst_count = pre.inst_count + (IF Succeeded THEN 1 ELSE 0)

\* C2 happens: a compressed instruction retired after a step that did not.
InstCount_Counts_Ok_Steps_Witness ==
    /\ calls = 2
    /\ Succeeded
    /\ inst.op \in Rv32cOps
    /\ pre.inst_count = 0
    /\ inst_count = 1

\* The last instruction is a jump, or a branch whose condition held.
JumpOps == {"JAL", "JALR", "C.J", "C.JAL", "C.JR", "C.JALR"}
BranchTaken ==
    CASE inst.op = "BEQ"    -> PreRs1 = PreRs2
      [] inst.op = "BNE"    -> PreRs1 # PreRs2
      [] inst.op = "BLT"    -> PreRs1 < PreRs2
      [] inst.op = "BGE"    -> PreRs1 >= PreRs2
      [] inst.op = "BLTU"   -> ULt(PreRs1, PreRs2)
      [] inst.op = "BGEU"   -> ~ULt(PreRs1, PreRs2)
      [] inst.op = "C.BEQZ" -> PreRs1 = 0
      [] inst.op = "C.BNEZ" -> PreRs1 # 0
      [] OTHER              -> FALSE
TakesBranchOrJump == inst.op \in JumpOps \/ BranchTaken

\* C3: after a successful step whose instruction takes no branch or jump, pc
\* is the pc before the step plus 4 modulo 2^32 for a 32-bit instruction and
\* plus 2 modulo 2^32 for a compressed one.
Sequential_Pc ==
    (Succeeded /\ ~TakesBranchOrJump) =>
        pc = WrapAdd(pre.pc, IF inst.op \in Rv32cOps THEN 2 ELSE 4)

\* C3 happens: a compressed branch that is not taken retired at the top of
\* the address space, where the sum wraps.
Sequential_Pc_Witness ==
    /\ Succeeded
    /\ inst.op = "C.BEQZ"
    /\ ~BranchTaken
    /\ pre.pc = -2
    /\ pc = 0

\* C4: a step that returns an error leaves pc and inst_count as they were
\* before the call.
Failed_Step_Keeps_Pc ==
    Failed => (pc = pre.pc /\ inst_count = pre.inst_count)

\* C4 happens: an illegal instruction was refused at a non-zero pc.
Failed_Step_Keeps_Pc_Witness ==
    /\ Failed
    /\ result.err = "IllegalInstruction"
    /\ pre.pc # 0

\* The value of register r after the last step, as an instruction that
\* names r as its destination leaves it: x0 stays 0.
RdIs(r, val) == regs[r] = (IF r = Zero THEN 0 ELSE val)

\* C5: when an LR.W to an aligned address A retires, rd has the word at A and
\* amo_rsv is Some(A); when the next executed instruction is an SC.W with
\* address A and rs2 = V, the SC.W stores V at A, writes 0 to its rd and
\* leaves amo_rsv at None.
LrSc_Success ==
    /\ (Succeeded /\ inst.op = "LR.W") =>
          /\ amo_rsv = Some(PreRs1)
          /\ RdIs(inst.rd, load_u32(pre.mem, PreRs1))
    /\ (pre.lr /\ inst.op = "SC.W" /\ ~Unaligned(PreRs1)
            /\ pre.amo_rsv = Some(PreRs1)) =>
          /\ Succeeded
          /\ load_u32(mem, PreRs1) = PreRs2
          /\ RdIs(inst.rd, 0)
          /\ amo_rsv = None

\* C5 happens: an SC.W right after an LR.W to the same address changed the
\* word there and replaced a non-zero rd by 0.
LrSc_Success_Witness ==
    /\ pre.lr
    /\ inst.op = "SC.W"
    /\ pre.amo_rsv = Some(PreRs1)
    /\ Succeeded
    /\ load_u32(pre.mem, PreRs1) # PreRs2
    /\ load_u32(mem, PreRs1) = PreRs2
    /\ inst.rd # Zero
    /\ pre.regs[inst.rd] # 0
    /\ regs[inst.rd] = 0

\* C6: an SC.W to an aligned address B executed while amo_rsv is None or
\* Some(A) with A # B writes 1 to rd, stores nothing and leaves amo_rsv at
\* None.
Sc_Without_Reservation ==
    (calls > 0 /\ inst.op = "SC.W" /\ ~Unaligned(PreRs1)
        /\ pre.amo_rsv # Some(PreRs1)) =>
          /\ Succeeded
          /\ RdIs(inst.rd, 1)
          /\ mem = pre.mem
          /\ amo_rsv = None

\* C6 happens: an SC.W found a reservation for another address, and the word
\* it would have stored differs from the one in memory.
Sc_Without_Reservation_Witness ==
    /\ inst.op = "SC.W"
    /\ Succeeded
    /\ pre.amo_rsv.some
    /\ pre.amo_rsv.val # PreRs1
    /\ load_u32(pre.mem, PreRs1) # PreRs2
    /\ inst.rd # Zero
    /\ regs[inst.rd] = 1

\* The operator of an AMO, on the old word and the value of rs2.
AmoF(op, old, v) ==
    CASE op = "AMOSWAP.W" -> v
      [] op = "AMOADD.W"  -> WrapAdd(old, v)
      [] op = "AMOXOR.W"  -> BitXor(old, v)
      [] op = "AMOOR.W"   -> BitOr(old, v)
      [] op = "AMOAND.W"  -> BitAnd(old, v)
      [] op = "AMOMIN.W"  -> IF old < v THEN old ELSE v
      [] op = "AMOMAX.W"  -> IF old > v THEN old ELSE v
      [] op = "AMOMINU.W" -> IF ULt(old, v) THEN old ELSE v
      [] op = "AMOMAXU.W" -> IF ULt(v, old) THEN old ELSE v

\* C7: every AMO*.W at an aligned address a = rs1 leaves f(old, v) at a, with
\* old the word at a and v the value of rs2 before the instruction, and old
\* in rd, for every choice of rd, rs1 and rs2.
Amo_Stores_F_Of_Old_And_Rs2 ==
    (calls > 0 /\ inst.op \in AmoOps /\ ~Unaligned(PreRs1)) =>
          /\ Succeeded
          /\ load_u32(mem, PreRs1) = AmoF(inst.op, load_u32(pre.mem, PreRs1), PreRs2)
          /\ RdIs(inst.rd, load_u32(pre.mem, PreRs1))

\* C7 where rd and rs2 are different registers or rd is x0.
Amo_Stores_F_Unless_Rd_Is_Rs2 ==
    (calls > 0 /\ inst.op \in AmoOps /\ ~Unaligned(PreRs1)
        /\ (inst.rd # inst.rs2 \/ inst.rd = Zero)) =>
          /\ Succeeded
          /\ load_u32(mem, PreRs1) = AmoF(inst.op, load_u32(pre.mem, PreRs1), PreRs2)
          /\ RdIs(inst.rd, load_u32(pre.mem, PreRs1))

\* C8: an LR.W, SC.W or AMO*.W whose address is not a multiple of 4 fails
\* with UnalignedMemoryAccess carrying the address and required = 4, and
\* changes no register, no memory, not amo_rsv, not pc and not inst_count.
Unaligned_Atomic_Fails ==
    (calls > 0 /\ inst.op \in Rv32aOps /\ Unaligned(PreRs1)) =>
          /\ result = ResErr("UnalignedMemoryAccess", PreRs1, 4)
          /\ regs = pre.regs
          /\ mem = pre.mem
          /\ amo_rsv = pre.amo_rsv
          /\ pc = pre.pc
          /\ inst_count = pre.inst_count

\* C8 happens: an unaligned SC.W was refused while a reservation was held.
Unaligned_Atomic_Fails_Witness ==
    /\ inst.op = "SC.W"
    /\ Unaligned(PreRs1)
    /\ Failed
    /\ result.addr = PreRs1
    /\ pre.amo_rsv.some
    /\ amo_rsv.some

\* (x & !1): the address with its least-significant bit cleared.
ClearLsb(a) == a - (a % 2)

\* C9: JALR writes pc + 4 to rd and sets pc to (rs1 + imm) mod 2^32 with the
\* least-significant bit cleared, rs1 read before the instruction; the pc
\* after the step is even.
Jalr_Clears_Lsb ==
    (calls > 0 /\ inst.op = "JALR") =>
          /\ Succeeded
          /\ RdIs(inst.rd, WrapAdd(pre.pc, 4))
          /\ pc = ClearLsb(WrapAdd(PreRs1, inst.imm))
          /\ pc % 2 = 0

\* C10: from a hart whose pc is 2-byte aligned, pc is even in every
\* reachable state.
Pc_Always_Even == pc % 2 = 0

\* C11: C.JR and C.JALR set pc to the value rs1 held before the instruction,
\* and C.JALR also writes pc + 2 to ra, for every rs1 including rs1 = ra.
CJr_CJalr_Jump_To_Old_Rs1 ==
    (calls > 0 /\ inst.op \in {"C.JR", "C.JALR"}) =>
          /\ Succeeded
          /\ pc = PreRs1
          /\ inst.op = "C.JALR" => regs[Ra] = WrapAdd(pre.pc, 2)

\* C11 where the C.JALR does not jump through ra.
CJr_CJalr_Jump_Unless_Through_Ra ==
    (calls > 0 /\ inst.op \in {"C.JR", "C.JALR"}
        /\ ~(inst.op = "C.JALR" /\ inst.rs1 = Ra)) =>
          /\ Succeeded
          /\ pc = PreRs1
          /\ inst.op = "C.JALR" => regs[Ra] = WrapAdd(pre.pc, 2)

\* The hook each kernel instruction is to call.
HookOf(op) == IF op = "ECALL" THEN "syscall" ELSE "ebreak"
Terminal == result.kind \notin {"None", "Ok", "Err"}

\* C12: step returns a StepResult other than Ok exactly when the instruction
\* is ECALL, EBREAK or C.EBREAK and its hook (syscall for ECALL, ebreak for
\* the two others) answered that result, and then pc and inst_count are not
\* advanced; when the hook answers Ok the instruction retires, inst_count
\* grows by 1 and pc by 4 (2 for C.EBREAK); no other instruction calls a hook
\* or yields a StepResult other than Ok.
Terminal_Only_From_Kernel ==
    /\ Terminal <=>
          (inst.op \in KernelOps /\ pre.hook.out \notin {"None", "Ok", "Err"})
    /\ Terminal =>
          /\ result.kind = pre.hook.out
          /\ pc = pre.pc
          /\ inst_count = pre.inst_count
    /\ (calls > 0 /\ inst.op \in KernelOps) =>
          /\ pre.hook.name = HookOf(inst.op)
          /\ pre.hook.out = "Ok" =>
                /\ Succeeded
                /\ inst_count = pre.inst_count + 1
                /\ pc = WrapAdd(pre.pc, IF inst.op = "C.EBREAK" THEN 2 ELSE 4)
    /\ (calls > 0 /\ inst.op \notin KernelOps) => pre.hook = NoHook

\* C12 happens: a C.EBREAK whose ebreak hook answered a terminal result.
Terminal_Only_From_Kernel_Witness ==
    /\ inst.op = "C.EBREAK"
    /\ pre.hook.name = "ebreak"
    /\ pre.hook.out = "Break"
    /\ result.kind = "Break"
    /\ pre.pc # 0

\* Bits hi..lo of the word w (fewer than 32 of them) as an unsigned number, and an n-bit
\* number read as two's complement.
Bits(w, hi, lo) == Shr(w, lo) % (2 ^ (hi - lo + 1))
SignExt(v, n) == IF v >= 2 ^ (n - 1) THEN v - 2 ^ n ELSE v
Bit31(w) == w < 0

\* C13: for every word, the I-type accessor returns bits[31:20] and the
\* S-type accessor bits[31:25]:bits[11:7], each read as a 12-bit two's
\* complement number: in -2048..2047 and negative exactly when bit 31 is set.
IType_SType_Imm_Sign_Extended ==
    decoded.some =>
        LET w == decoded.raw
        IN  /\ decoded.i_imm = SignExt(Bits(w, 31, 20), 12)
            /\ decoded.s_imm = SignExt(32 * Bits(w, 31, 25) + Bits(w, 11, 7), 12)
            /\ decoded.i_imm \in -2048..2047
            /\ decoded.s_imm \in -2048..2047
            /\ (decoded.i_imm < 0) <=> Bit31(w)
            /\ (decoded.s_imm < 0) <=> Bit31(w)

\* C13 as the accessors compute it: the field is shifted left by 21, which
\* drops its bit 11, and the 11 bits left are sign-extended from bit 10.
IType_SType_Imm_From_11_Bits ==
    decoded.some =>
        LET w == decoded.raw
        IN  /\ decoded.i_imm = SignExt(Bits(w, 30, 20), 11)
            /\ decoded.s_imm =
                  SignExt(32 * Bits(w, 30, 25) + Bits(w, 11, 7), 11)

\* The B-type and J-type immediates of the raw word w as the instruction
\* formats define them.
BTypeField(w) ==
    4096 * Bits(w, 31, 31) + 2048 * Bits(w, 7, 7) + 32 * Bits(w, 30, 25)
        + 2 * Bits(w, 11, 8)
JTypeField(w) ==
    1048576 * Bits(w, 31, 31) + 4096 * Bits(w, 19, 12) + 2048 * Bits(w, 20, 20)
        + 2 * Bits(w, 30, 21)

\* C14: for every word, the B-type accessor returns
\* bits[31]:bits[7]:bits[30:25]:bits[11:8]:0 read as a 13-bit two's
\* complement number, an even value in -4096..4094, and Jal::imm returns
\* bits[31]:bits[19:12]:bits[20]:bits[30:21]:0 read as a 21-bit one, an even
\* value in -1048576..1048574; each is negative exactly when bit 31 is set.
BType_JType_Imm_Sign_Extended ==
    decoded.some =>
        LET w == decoded.raw
        IN  /\ decoded.b_imm = SignExt(BTypeField(w), 13)
            /\ decoded.j_imm = SignExt(JTypeField(w), 21)
            /\ decoded.b_imm \in -4096..4094 /\ decoded.b_imm % 2 = 0
            /\ decoded.j_imm \in -1048576..1048574 /\ decoded.j_imm % 2 = 0
            /\ (decoded.b_imm < 0) <=> Bit31(w)
            /\ (decoded.j_imm < 0) <=> Bit31(w)

\* C14 as the accessors compute it: the top bit of the field is shifted out
\* and the rest is sign-extended from the bit below it.
BType_JType_Imm_Without_Bit_31 ==
    decoded.some =>
        LET w == decoded.raw
        IN  /\ decoded.b_imm = SignExt(BTypeField(w) % 4096, 12)
            /\ decoded.j_imm = SignExt(JTypeField(w) % 1048576, 20)
            /\ decoded.b_imm % 2 = 0
            /\ decoded.j_imm % 2 = 0

\* C15: for every word, Lui::imm and Auipc::imm return w & 0xFFFFF000, so
\* LUI sets rd to w & 0xFFFFF000 and AUIPC sets rd to pc + (w & 0xFFFFF000)
\* modulo 2^32, whatever bits 31 and 30 of the word are.
UType_Imm_Is_Upper_20_Bits ==
    decoded.some =>
        LET w == decoded.raw
        IN  /\ decoded.u_imm = BitAnd(w, -4096)
            /\ (Succeeded /\ inst.op = "LUI") =>
                  RdIs(inst.rd, BitAnd(w, -4096))
            /\ (Succeeded /\ inst.op = "AUIPC") =>
                  RdIs(inst.rd, WrapAdd(pre.pc, BitAnd(w, -4096)))

\* C15 as the accessor computes it: bit 31 of the result is a copy of bit 30.
UType_Imm_Sign_From_Bit_30 ==
    decoded.some =>
        LET w  == decoded.raw
            lo == BitAnd(w, MaxI32 - 4095)
        IN  /\ decoded.u_imm = (IF Bits(w, 30, 30) = 1 THEN BitOr(lo, MinI32) ELSE lo)
            /\ (Succeeded /\ inst.op = "LUI") => RdIs(inst.rd, decoded.u_imm)
            /\ (Succeeded /\ inst.op = "AUIPC") =>
                  RdIs(inst.rd, WrapAdd(pre.pc, decoded.u_imm))

Shamt_Is_6_Bits ==
    decoded.some =>
        LET w == decoded.raw
        IN  /\ decoded.shamt = Bits(w, 25, 20)
            /\ decoded.shamt \in 0..63
            /\ (Succeeded /\ inst.op \in {"SLLI", "SRLI", "SRAI"}) =>
                  /\ inst.imm = Bits(w, 24, 20)
                  /\ inst.op = "SLLI" => RdIs(inst.rd, Shl(PreRs1, inst.imm))
                  /\ inst.op = "SRLI" => RdIs(inst.rd, Shr(PreRs1, inst.imm))
                  /\ inst.op = "SRAI" => RdIs(inst.rd, Sar(PreRs1, inst.imm))
                  /\ (inst.op = "SRAI" /\ inst.imm = 31 /\ PreRs1 = MinI32) =>
                        RdIs(inst.rd, -1)

DivOps == {"DIV", "DIVU", "REM", "REMU"}

\* q and r are the signed quotient truncated toward zero and the remainder
\* with the sign of the dividend: a = q * b + r with |r| < |b| and r zero or
\* of the sign of a (b # 0, not a = INT32_MIN with b = -1).
SignedDivision(a, b, q, r) ==
    /\ r = a - q * b
    /\ IF b > 0 THEN (0 - b) < r /\ r < b ELSE b < r /\ r <= (-1) - b
    /\ (a >= 0 => r >= 0) /\ (a <= 0 => r <= 0)

\* q and r are the unsigned quotient and remainder: a = q * b + r without
\* wrapping and r < b, all read as unsigned (b # 0).
UnsignedDivision(a, b, q, r) ==
    /\ Mulhu(q, b) = 0
    /\ ~ULt(a, WrapMul(q, b))
    /\ r = WrapSub(a, WrapMul(q, b))
    /\ ULt(r, b)

\* The quotient (for DIV, DIVU) or remainder (for REM, REMU) the claim names
\* is val.
DivResultIs(op, a, b, val) ==
    IF b = 0 THEN val = (IF op \in {"DIV", "DIVU"} THEN -1 ELSE a)
    ELSE IF op \in {"DIV", "REM"}
    THEN IF a = MinI32 /\ b = -1 THEN val = (IF op = "DIV" THEN MinI32 ELSE 0)
         ELSE IF op = "DIV" THEN SignedDivision(a, b, val, a - val * b)
         ELSE \E q \in {Div(a, b)} : SignedDivision(a, b, q, val)
    ELSE IF op = "DIVU"
    THEN UnsignedDivision(a, b, val, WrapSub(a, WrapMul(val, b)))
    ELSE \E q \in {Divu(a, b)} : UnsignedDivision(a, b, q, val)

\* C17: DIV, REM, DIVU and REMU never fail; with rs2 = 0 DIV and DIVU give
\* 0xFFFFFFFF and REM and REMU give rs1; INT32_MIN by -1 gives INT32_MIN
\* (DIV) and 0 (REM); otherwise DIV/REM give the signed quotient truncated
\* toward zero and the remainder with the sign of the dividend, DIVU/REMU the
\* unsigned quotient and remainder.
Div_Rem_Edge_Cases ==
    inst.op \in DivOps =>
        /\ Succeeded
        /\ inst.rd # Zero => DivResultIs(inst.op, PreRs1, PreRs2, regs[inst.rd])
        /\ inst.rd = Zero => regs[Zero] = 0

\* C17 happens: DIV of INT32_MIN by -1 retired into x5.
Div_Rem_Edge_Cases_Witness ==
    /\ inst.op = "DIV"
    /\ Succeeded
    /\ inst.rd = 5
    /\ PreRs1 = MinI32
    /\ PreRs2 = -1
    /\ regs[5] = MinI32

\* The three base-2^11 digits of a 32-bit operand read as unsigned.
Limbs(a) == <<Bits(a, 10, 0), Bits(a, 21, 11), Bits(a, 31, 22)>>

\* The six base-2^11 digits of the product of two operands read as unsigned
\* (schoolbook multiplication with carry propagation).
ProductDigits(a, b) ==
    LET x  == Limbs(a)
        y  == Limbs(b)
        c1 == x[1] * y[1]
        c2 == x[1] * y[2] + x[2] * y[1] + (c1 \div 2048)
        c3 == x[1] * y[3] + x[2] * y[2] + x[3] * y[1] + (c2 \div 2048)
        c4 == x[2] * y[3] + x[3] * y[2] + (c3 \div 2048)
        c5 == x[3] * y[3] + (c4 \div 2048)
    IN  <<c1 % 2048, c2 % 2048, c3 % 2048, c4 % 2048, c5 % 2048, c5 \div 2048>>

\* Bits 0..31 and bits 32..63 of the unsigned product, as 32-bit patterns.
ProductLow(a, b) ==
    LET d  == ProductDigits(a, b)
        t  == d[3] % 1024
    IN  (IF t >= 512 THEN t - 1024 ELSE t) * 4194304 + d[2] * 2048 + d[1]
ProductHighU(a, b) ==
    LET d == ProductDigits(a, b)
    IN  (IF d[6] >= 256 THEN d[6] - 512 ELSE d[6]) * 8388608
        + d[5] * 4096 + d[4] * 2 + (d[3] \div 1024)

\* High words of the products with one or both operands read as signed: a
\* negative operand is 2^32 less than its unsigned reading.
ProductHighSU(a, b) == WrapSub(ProductHighU(a, b), IF a < 0 THEN b ELSE 0)
ProductHighS(a, b) == WrapSub(ProductHighSU(a, b), IF b < 0 THEN a ELSE 0)

MulOps == {"MUL", "MULH", "MULHSU", "MULHU"}

\* C18: MUL, MULH, MULHSU and MULHU never fail; MUL gives the low 32 bits
\* of the product, MULH the high 32 bits of signed times signed, MULHSU of
\* signed rs1 times unsigned rs2, MULHU of unsigned times unsigned.
Mul_Family_Products ==
    inst.op \in MulOps =>
        /\ Succeeded
        /\ inst.op = "MUL" => RdIs(inst.rd, ProductLow(PreRs1, PreRs2))
        /\ inst.op = "MULH" => RdIs(inst.rd, ProductHighS(PreRs1, PreRs2))
        /\ inst.op = "MULHSU" => RdIs(inst.rd, ProductHighSU(PreRs1, PreRs2))
        /\ inst.op = "MULHU" => RdIs(inst.rd, ProductHighU(PreRs1, PreRs2))

\* C18 happens: MULHSU of INT32_MIN by 0xFFFFFFFF retired into x5, whose
\* product -2^63 + 2^31 has the high word 0x80000000.
Mul_Family_Products_Witness ==
    /\ inst.op = "MULHSU"
    /\ Succeeded
    /\ inst.rd = 5
    /\ PreRs1 = MinI32
    /\ PreRs2 = -1
    /\ regs[5] = MinI32

\* Bit k (0..31) of a 32-bit pattern.
BitOf(w, k) == IF k = 31 THEN w < 0 ELSE (w \div (2 ^ k)) % 2 = 1

\* r is a shifted left / right by n in 0..31 with zeros shifted in, or
\* shifted right with the sign bit of a replicated.
IsShl(r, a, n) ==
    \A k \in 0..31 : BitOf(r, k) = (k >= n /\ BitOf(a, k - n))
IsShrLogical(r, a, n) ==
    \A k \in 0..31 : BitOf(r, k) = (k + n <= 31 /\ BitOf(a, k + n))
IsShrArith(r, a, n) ==
    \A k \in 0..31 : BitOf(r, k) = BitOf(a, IF k + n <= 31 THEN k + n ELSE 31)

\* C19: SLL, SRL and SRA shift rs1 by rs2 & 0x1F whatever bits 5..31 of rs2
\* are; SLL and SRL shift in zeros, SRA replicates the sign bit of rs1.
Shift_By_Low_5_Bits_Of_Rs2 ==
    (inst.op \in {"SLL", "SRL", "SRA"} /\ calls > 0) =>
        /\ Succeeded
        /\ inst.rd = Zero => regs[Zero] = 0
        /\ inst.rd # Zero =>
             LET n == BitAnd(PreRs2, 31)
                 r == regs[inst.rd]
             IN  /\ n \in 0..31
                 /\ inst.op = "SLL" => IsShl(r, PreRs1, n)
                 /\ inst.op = "SRL" => IsShrLogical(r, PreRs1, n)
                 /\ inst.op = "SRA" => IsShrArith(r, PreRs1, n)

\* C19 happens: SRA of a negative rs1 by an rs2 with bits above bit 4 set
\* retired into x5.
Shift_By_Low_5_Bits_Of_Rs2_Witness ==
    /\ inst.op = "SRA"
    /\ Succeeded
    /\ inst.rd = 5
    /\ PreRs1 < 0
    /\ PreRs2 \notin 0..31
    /\ BitAnd(PreRs2, 31) = 3
    /\ regs[5] = -1

CsrRegOps == {"CSRRW", "CSRRS", "CSRRC"}
CsrImmOps == {"CSRRWI", "CSRRSI", "CSRRCI"}

\* The value the CSR named by a CSR instruction must hold afterwards: s for
\* RW, old | s for RS, old & ~s for RC, bit by bit.
CsrBecomes(op, new, old, s) ==
    \A k \in 0..31 :
        BitOf(new, k) =
            CASE op \in {"CSRRW", "CSRRWI"} -> BitOf(s, k)
              [] op \in {"CSRRS", "CSRRSI"} -> BitOf(old, k) \/ BitOf(s, k)
              [] op \in {"CSRRC", "CSRRCI"} -> BitOf(old, k) /\ ~BitOf(s, k)

\* C20: a CSR instruction on index c gives rd the value csrs[c] held before
\* (nothing when rd = x0) and makes csrs[c] s, old | s or old & ~s, where s
\* is the value rs1 held before the instruction, also when rd = rs1, or the
\* zero-extended 5-bit immediate; no other CSR changes.
Csr_Read_Then_Modify ==
    (inst.op \in CsrRegOps \cup CsrImmOps /\ calls > 0) =>
        LET c   == inst.csr
            old == pre.csrs[c]
            s   == IF inst.op \in CsrRegOps THEN PreRs1 ELSE inst.imm
        IN  /\ Succeeded
            /\ inst.op \in CsrImmOps => s \in 0..31
            /\ RdIs(inst.rd, old)
            /\ CsrBecomes(inst.op, csrs[c], old, s)
            /\ \A o \in CsrIdx \ {c} : csrs[o] = pre.csrs[o]

\* C20 happens: CSRRC with rd = rs1 retired on a CSR that held a value other
\* than zero and other than rs1, and cleared bits of it.
Csr_Read_Then_Modify_Witness ==
    /\ inst.op = "CSRRC"
    /\ Succeeded
    /\ inst.rd = inst.rs1
    /\ inst.rd # Zero
    /\ pre.csrs[inst.csr] # 0
    /\ PreRs1 # pre.csrs[inst.csr]
    /\ regs[inst.rd] = pre.csrs[inst.csr]
    /\ csrs[inst.csr] # pre.csrs[inst.csr]

BranchOps == {"BEQ", "BNE", "BLT", "BGE", "BLTU", "BGEU"}

\* C21: a branch sets pc to pc + imm modulo 2^32 exactly when its predicate
\* holds and to pc + 4 otherwise, BLT and BGE comparing signed and BLTU and
\* BGEU unsigned, and changes no register, CSR or memory word.
Branch_Sets_Only_Pc ==
    (inst.op \in BranchOps /\ Succeeded) =>
        /\ pc = WrapAdd(pre.pc, IF BranchTaken THEN inst.imm ELSE 4)
        /\ regs = pre.regs
        /\ csrs = pre.csrs
        /\ mem = pre.mem

\* C21 happens: on operands that order differently as signed and as
\* unsigned, a BLT was taken backwards.
Branch_Sets_Only_Pc_Witness ==
    /\ inst.op = "BLT"
    /\ Succeeded
    /\ PreRs1 < 0
    /\ PreRs2 > 0
    /\ inst.imm < 0
    /\ pc = WrapAdd(pre.pc, inst.imm)
    /\ pc # WrapAdd(pre.pc, 4)

\* The registers other than r are as before the step.
OtherRegsKept(r) == \A x \in Reg \ {r} : regs[x] = pre.regs[x]

\* C22: JAL writes pc + 4 to rd and jumps to pc + imm; C.JAL writes pc + 2
\* to ra and jumps to pc + imm; C.J jumps to pc + imm and writes no register;
\* pc is the address of the jump itself and the sums wrap modulo 2^32.
Jal_Links_And_Jumps ==
    (inst.op \in {"JAL", "C.JAL", "C.J"} /\ calls > 0) =>
        /\ Succeeded
        /\ pc = WrapAdd(pre.pc, inst.imm)
        /\ inst.op = "JAL" =>
              RdIs(inst.rd, WrapAdd(pre.pc, 4)) /\ OtherRegsKept(inst.rd)
        /\ inst.op = "C.JAL" =>
              regs[Ra] = WrapAdd(pre.pc, 2) /\ OtherRegsKept(Ra)
        /\ inst.op = "C.J" => regs = pre.regs

\* C22 happens: a JAL at the top of the address space linked through x1, link
\* and target both wrapping.
Jal_Links_And_Jumps_Witness ==
    /\ inst.op = "JAL"
    /\ Succeeded
    /\ inst.rd = Ra
    /\ pre.pc = -2
    /\ inst.imm = 8
    /\ regs[Ra] = 2
    /\ pc = 6

LoadOps == {"LB", "LH", "LW", "LBU", "LHU"}
StoreOps == {"SB", "SH", "SW"}

\* The number of bytes a load or store accesses.
AccessWidth(op) ==
    IF op \in {"LB", "LBU", "SB"} THEN 1
    ELSE IF op \in {"LH", "LHU", "SH"} THEN 2 ELSE 4

\* Byte k (0 = least significant) of the two's complement pattern of v.
ByteOf(v, k) == (v \div (256 ^ k)) % 256

\* v is the value a load of the named kind yields from the little-endian
\* bytes of m at address a.
Loaded(op, m, a, v) ==
    CASE op = "LB"  -> v = SignExt(m[a], 8)
      [] op = "LBU" -> v = m[a]
      [] op = "LH"  -> v = SignExt(m[a] + 256 * m[a + 1], 16)
      [] op = "LHU" -> v = m[a] + 256 * m[a + 1]
      [] op = "LW"  -> \A k \in 0..3 : ByteOf(v, k) = m[a + k]

\* C23: loads and stores use the address rs1 + imm modulo 2^32, rs1 being
\* read before rd is written; LB and LH sign-extend, LBU and LHU zero-extend,
\* LW loads 32 bits; SB and SH store only the low 8 / 16 bits of rs2 and SW
\* all 32 bits.
Load_Store_Effective_Address ==
    (inst.op \in LoadOps \cup StoreOps /\ Succeeded) =>
        LET a == WrapAdd(PreRs1, inst.imm)
            n == AccessWidth(inst.op)
        IN  IF inst.op \in LoadOps
            THEN /\ inst.rd # Zero => Loaded(inst.op, pre.mem, a, regs[inst.rd])
                 /\ OtherRegsKept(inst.rd)
                 /\ regs[Zero] = 0
                 /\ mem = pre.mem
            ELSE /\ \A x \in DOMAIN mem :
                       mem[x] = IF x \in a..(a + n - 1)
                                THEN ByteOf(PreRs2, x - a) ELSE pre.mem[x]
                 /\ regs = pre.regs

\* C23 happens: an LB with rd = rs1 and a negative immediate read a byte with
\* its top bit set, and rd has its sign extension.
Load_Store_Effective_Address_Witness ==
    /\ inst.op = "LB"
    /\ Succeeded
    /\ inst.rd = inst.rs1
    /\ inst.rd # Zero
    /\ inst.imm < 0
    /\ pre.mem[WrapAdd(PreRs1, inst.imm)] >= 128
    /\ regs[inst.rd] < 0
    /\ regs[inst.rd] # PreRs1

\* The hart as it was before the last step.
PreHart ==
    [regs |-> pre.regs, csrs |-> pre.csrs, pc |-> pre.pc,
     inst_count |-> pre.inst_count, amo_rsv |-> pre.amo_rsv, mem |-> pre.mem]

\* The compressed forms that transfer no control.
CFormOps ==
    {"C.ADDI", "C.LI", "C.LUI", "C.MV", "C.ADD", "C.SUB", "C.XOR", "C.OR",
     "C.AND", "C.ANDI", "C.SLLI", "C.SRLI", "C.SRAI", "C.LW", "C.SW", "C.LWSP",
     "C.SWSP", "C.ADDI4SPN", "C.ADDI16SP"}

\* The 32-bit form a compressed instruction expands to, with the same operands.
Expanded(i) ==
    CASE i.op = "C.ADDI"     -> Ins("ADDI", i.rd, i.rd, 0, i.imm)
      [] i.op = "C.LI"       -> Ins("ADDI", i.rd, Zero, 0, i.imm)
      [] i.op = "C.LUI"      -> Ins("LUI", i.rd, 0, 0, i.imm)
      [] i.op = "C.MV"       -> Ins("ADD", i.rd, Zero, i.rs2, 0)
      [] i.op = "C.ADD"      -> Ins("ADD", i.rd, i.rd, i.rs2, 0)
      [] i.op = "C.SUB"      -> Ins("SUB", i.rd, i.rd, i.rs2, 0)
      [] i.op = "C.XOR"      -> Ins("XOR", i.rd, i.rd, i.rs2, 0)
      [] i.op = "C.OR"       -> Ins("OR", i.rd, i.rd, i.rs2, 0)
      [] i.op = "C.AND"      -> Ins("AND", i.rd, i.rd, i.rs2, 0)
      [] i.op = "C.ANDI"     -> Ins("ANDI", i.rd, i.rd, 0, i.imm)
      [] i.op = "C.SLLI"     -> Ins("SLLI", i.rd, i.rd, 0, i.imm)
      [] i.op = "C.SRLI"     -> Ins("SRLI", i.rd, i.rd, 0, i.imm)
      [] i.op = "C.SRAI"     -> Ins("SRAI", i.rd, i.rd, 0, i.imm)
      [] i.op = "C.LW"       -> Ins("LW", i.rd, i.rs1, 0, i.imm)
      [] i.op = "C.SW"       -> Ins("SW", 0, i.rs1, i.rs2, i.imm)
      [] i.op = "C.LWSP"     -> Ins("LW", i.rd, Sp, 0, i.imm)
      [] i.op = "C.SWSP"     -> Ins("SW", 0, Sp, i.rs2, i.imm)
      [] i.op = "C.ADDI4SPN" -> Ins("ADDI", i.rd, Sp, 0, i.imm)
      [] i.op = "C.ADDI16SP" -> Ins("ADDI", Sp, Sp, 0, i.imm)

\* C24: a compressed form that transfers no control leaves the registers
\* and the memory its expanded 32-bit form leaves when run from the same
\* state; the runs differ only in pc, advanced by 2 instead of 4.
Compressed_Matches_Expanded ==
    (inst.op \in CFormOps /\ calls > 0) =>
        \E e \in {Exec(PreHart, Expanded(inst), NoKernel)} :
            \E h \in {Retire(e)} :
                /\ result = e.res
                /\ regs = h.regs
                /\ mem = h.mem
                /\ csrs = h.csrs
                /\ amo_rsv = h.amo_rsv
                /\ inst_count = h.inst_count
                /\ h.pc = WrapAdd(pre.pc, 4)
                /\ pc = WrapAdd(pre.pc, 2)

\* C24 happens: a C.SWSP changed the memory, as the SW relative to sp does.
Compressed_Matches_Expanded_Witness ==
    /\ inst.op = "C.SWSP"
    /\ Succeeded
    /\ mem # pre.mem
    /\ mem = Retire(Exec(PreHart, Expanded(inst), NoKernel)).mem
    /\ pc = WrapAdd(pre.pc, 2)

UnimplementedOps ==
    {"URET", "SRET", "HRET", "DRET", "SFENCE.VM", "SFENCE.VMA", "WFI"}

\* C25: a word the decoder cannot classify fails with InvalidInstruction
\* carrying pc and the word; UNIMP and C.UNIMP fail with IllegalInstruction;
\* URET, SRET, HRET, DRET, SFENCE.VM, SFENCE.VMA and WFI fail with
\* UnimplementedInstruction; each error carries the pc of the instruction.
Errors_Carry_Pc ==
    calls > 0 =>
        /\ inst.op = "UNKNOWN" =>
              /\ Failed
              /\ result.err = "InvalidInstruction"
              /\ result.addr = pre.pc
              /\ result.inst = inst.raw
        /\ inst.op \in {"UNIMP", "C.UNIMP"} =>
              Failed /\ result.err = "IllegalInstruction" /\ result.addr = pre.pc
        /\ inst.op \in UnimplementedOps =>
              /\ Failed
              /\ result.err = "UnimplementedInstruction"
              /\ result.addr = pre.pc

\* C25 happens: an unclassified word other than the pc was refused at a
\* non-zero pc.
Errors_Carry_Pc_Witness ==
    /\ inst.op = "UNKNOWN"
    /\ Failed
    /\ pre.pc # 0
    /\ result.addr = pre.pc
    /\ result.inst = 127

NoOps == {"FENCE", "FENCE.I", "MRET", "C.NOP"}

\* C26: FENCE, FENCE.I, MRET and C.NOP retire and change nothing but pc
\* (advanced by 4, by 2 for C.NOP) and inst_count (increased by 1), whatever
\* the pred/succ bits of the fence are.
NoOps_Change_Only_Pc_And_Count ==
    (inst.op \in NoOps /\ calls > 0) =>
        /\ Succeeded
        /\ pc = WrapAdd(pre.pc, IF inst.op = "C.NOP" THEN 2 ELSE 4)
        /\ inst_count = pre.inst_count + 1
        /\ regs = pre.regs
        /\ csrs = pre.csrs
        /\ amo_rsv = pre.amo_rsv
        /\ mem = pre.mem

\* C26 happens: an MRET retired while a reservation was held and registers
\* and memory were not all zero, and left them alone.
NoOps_Change_Only_Pc_And_Count_Witness ==
    /\ inst.op = "MRET"
    /\ Succeeded
    /\ pre.amo_rsv.some
    /\ amo_rsv = pre.amo_rsv
    /\ pre.regs[3] # 0
    /\ inst_count = 2

\* The last instruction of run was an SC.W that followed an LR.W to the same
\* aligned address.
RunScAfterLr ==
    /\ inst.op = "SC.W"
    /\ pre.lr
    /\ pre.amo_rsv.some
    /\ pre.amo_rsv.val[1] = pointer(PreRs1)
    /\ ~Unaligned(PreRs1)

\* C27: in run, an SC.W to an aligned address A that follows an LR.W to A
\* stores rs2 at A, whatever rs2 holds, and writes 0 to rd; an SC.W that does
\* not succeed stores nothing and writes a non-zero value to rd.
Run_Sc_Follows_Manual ==
    (inst.op = "SC.W" /\ Succeeded) =>
        IF RunScAfterLr
        THEN load_u32(mem, PreRs1) = PreRs2 /\ RdIs(inst.rd, 0)
        ELSE mem = pre.mem /\ (inst.rd # Zero => regs[inst.rd] # 0)

\* C27 as run behaves: the store happens only when rs2 is the value the
\* LR.W loaded, rd is then 1, and rd is 0 whenever nothing is stored.
Run_Sc_Stores_Only_Loaded_Value ==
    (inst.op = "SC.W" /\ Succeeded) =>
        IF pre.amo_rsv.some /\ pre.amo_rsv.val = <<pointer(PreRs1), PreRs2>>
        THEN load_u32(mem, PreRs1) = PreRs2 /\ RdIs(inst.rd, 1)
        ELSE mem = pre.mem /\ RdIs(inst.rd, 0)

\* An SC.W of run after an LR.W to the same address with another value in
\* rs2: nothing is stored and rd is 0.
Run_Sc_Refused_After_Lr ==
    /\ RunScAfterLr
    /\ Succeeded
    /\ inst.rd # Zero
    /\ PreRs2 # pre.amo_rsv.val[2]
    /\ mem = pre.mem
    /\ regs[inst.rd] = 0

\* C28: for all operand pairs, MULH in run sign-extends both operands to
\* 64 bits, multiplies without overflow and writes the high 32 bits of the
\* product to rd, the value Hart32::step writes for the same operands.
Run_Mulh_Matches_Step ==
    (inst.op = "MULH" /\ calls > 0) =>
        /\ Succeeded
        /\ RdIs(inst.rd, ProductHighS(PreRs1, PreRs2))
        /\ RdIs(inst.rd, Mulh(PreRs1, PreRs2))

\* C28 as run behaves: the operands are extended with zeros, so rd has the
\* high word of the unsigned product, unless the product reaches 2^63 and
\* the build panics on the overflow.
Run_Mulh_Is_Unsigned ==
    (inst.op = "MULH" /\ calls > 0) =>
        \/ Succeeded /\ RdIs(inst.rd, ProductHighU(PreRs1, PreRs2))
        \/ /\ result.kind = "Panic"
           /\ ProductHighU(PreRs1, PreRs2) < 0
           /\ regs = pre.regs

\* A MULH of run retired with a negative operand and a result other than
\* the one of step.
Run_Mulh_Differs_From_Step ==
    /\ inst.op = "MULH"
    /\ Succeeded
    /\ inst.rd # Zero
    /\ PreRs1 < 0
    /\ PreRs2 > 0
    /\ regs[inst.rd] # Mulh(PreRs1, PreRs2)

\* A MULH of run panicked on the overflow of its product.
Run_Mulh_Panicked == inst.op = "MULH" /\ result.kind = "Panic"

\* The last SC.W stored rs2 at its address and wrote 0 to rd.
ScSucceeded ==
    /\ load_u32(mem, PreRs1) = PreRs2
    /\ RdIs(inst.rd, 0)
    /\ inst.rd # Zero => regs[inst.rd] = 0

\* The last SC.W stored nothing and wrote 1 to rd.
ScRefused == mem = pre.mem /\ RdIs(inst.rd, 1)

\* C29: amo_rsv is changed only by a retiring LR.W, to Some of its address,
\* and by an aligned SC.W, to None; so an SC.W to an aligned address A
\* succeeds exactly when the most recent LR.W or SC.W before it was an LR.W
\* to A, whatever stores or AMOs to A came between, and refuses otherwise.
Reservation_Changed_Only_By_LrSc ==
    calls > 0 =>
        /\ amo_rsv =
              IF Succeeded /\ inst.op = "LR.W" THEN Some(PreRs1)
              ELSE IF Succeeded /\ inst.op = "SC.W" THEN None
              ELSE pre.amo_rsv
        /\ (inst.op = "SC.W" /\ Succeeded) =>
              IF pre.last = Some(PreRs1) THEN ScSucceeded ELSE ScRefused

\* C29 happens: an SC.W succeeded although the word at its address is no
\* longer the one the LR.W loaded into x5: an AMO or a store came between.
Reservation_Changed_Only_By_LrSc_Witness ==
    /\ inst.op = "SC.W"
    /\ Succeeded
    /\ calls = 3
    /\ ~pre.lr
    /\ pre.last = Some(PreRs1)
    /\ load_u32(pre.mem, PreRs1) # pre.regs[5]
    /\ ScSucceeded
    /\ inst.rd # Zero

\* The instruction i with the destination r.
WithRd(i, r) ==
    [op |-> i.op, rd |-> r, rs1 |-> i.rs1, imm |-> i.imm, csr |-> i.csr,
     rs2 |-> i.rs2, raw |-> i.raw]

\* The instructions with a destination and a further effect.
X0DestOps == {"JAL", "JALR", "SC.W"} \cup LoadOps \cup AmoOps \cup CsrRegOps

\* C30: an instruction whose destination is x0 performs every effect other
\* than the register write: JAL and JALR transfer control, an AMO stores
\* f(old, rs2), an SC.W stores on success and clears the reservation, a CSR
\* instruction updates the CSR; everything but the registers is as the same
\* instruction with the destination x5 leaves it, and no register changes.
X0_Destination_Keeps_Effects ==
    (inst.op \in X0DestOps /\ inst.rd = Zero /\ calls > 0
        /\ inst.rs1 # 5 /\ inst.rs2 # 5) =>
        /\ \E e \in {Exec(PreHart, WithRd(inst, 5), NoKernel)} :
             \E h \in {Retire(e)} :
               /\ result = e.res
               /\ pc = h.pc
               /\ mem = h.mem
               /\ csrs = h.csrs
               /\ amo_rsv = h.amo_rsv
               /\ inst_count = h.inst_count
               /\ \A r \in Reg \ {5} : h.regs[r] = regs[r]
        /\ regs = pre.regs
        /\ inst.op = "JAL" => pc = WrapAdd(pre.pc, inst.imm)
        /\ inst.op = "JALR" => pc \in {WrapAdd(PreRs1, inst.imm),
                                       ClearLsb(WrapAdd(PreRs1, inst.imm))}
        /\ (inst.op \in AmoOps /\ Succeeded) =>
              load_u32(mem, PreRs1) =
                  AmoF(inst.op, load_u32(pre.mem, PreRs1), PreRs2)
        /\ (inst.op = "SC.W" /\ Succeeded) =>
              /\ amo_rsv = None
              /\ pre.amo_rsv = Some(PreRs1) => load_u32(mem, PreRs1) = PreRs2
        /\ inst.op \in CsrRegOps =>
              CsrBecomes(inst.op, csrs[inst.csr], pre.csrs[inst.csr], PreRs1)

\* C30 happens: an SC.W with rd = x0 held the reservation, changed the
\* memory and cleared the reservation.
X0_Destination_Keeps_Effects_Witness ==
    /\ inst.op = "SC.W"
    /\ inst.rd = Zero
    /\ Succeeded
    /\ pre.amo_rsv = Some(PreRs1)
    /\ mem # pre.mem
    /\ load_u32(mem, PreRs1) = PreRs2
    /\ amo_rsv = None

=============================================================================
